---- MODULE Spec2Model ----
(***************************************************************************)
(* Model of the NXTP SDK transfer orchestrator (NxtpSdkBase): the quote    *)
(* auction over the message bus (getTransferQuote) and the construction of *)
(* the sender-side prepare request (prepareTransfer).                      *)
(*                                                                         *)
(* Units: timers are in milliseconds (AUCTION_TIMEOUT), expiries are in    *)
(* seconds, slippage tolerances are in hundredths of a percent (the value  *)
(* of parseFloat(s) * 100 for a two-fraction-digit percent string s).      *)
(***************************************************************************)
EXTENDS Integers, Sequences, FiniteSets, TLC

\* ------------------------------------------------------------------------
\* Bounds of the model
\* ------------------------------------------------------------------------
\* Number of messages the bus delivers on the auction-response topic.
MaxResponses == 3
\* Number of clock ticks the model lets pass after the auction started.
MaxTicks == 2
\* Number of ReceiverTransactionFulfilled events the subgraph emits.
MaxEvents == 2
\* Number of connectMessaging calls the user makes.
MaxUserConnects == 1
\* Number of messages the bus delivers while two calls are in flight.
MaxSharedResponses == 2
\* The largest amount the gas calculation answers.
MaxGas == 2
\* The largest balance and amount of the router's prepare.
MaxBalance == 3
\* Number of reads made of one ChainReader.
MaxReads == 2
\* The largest of the small amounts of the slippage check.
MaxGateAmount == 12

\* ------------------------------------------------------------------------
\* Program constants
\* ------------------------------------------------------------------------
MIN_SLIPPAGE_TOLERANCE == 1
MAX_SLIPPAGE_TOLERANCE == 1500
DEFAULT_SLIPPAGE_TOLERANCE == 10
AUCTION_TIMEOUT == 6000
META_TX_TIMEOUT == 300000

\* `undefined` for an optional numeric parameter.
Undefined == -1
\* `undefined` for an optional string parameter.
UndefinedStr == "undefined"
AddressZero == "0x0000"

\* One clock tick: an auction window.
TickMs == AUCTION_TIMEOUT

hoursToSeconds(hours) == hours * 60 * 60
daysToSeconds(days) == hoursToSeconds(days * 24)
getExpiry(latestBlockTimestamp) ==
    latestBlockTimestamp + daysToSeconds(3) + hoursToSeconds(3)
\* Mutant: the minimum buffer is two days.
getMinExpiryBufferTwoDays == daysToSeconds(2)
getMinExpiryBuffer == daysToSeconds(2) + hoursToSeconds(1)
getMaxExpiryBuffer == daysToSeconds(4)

\* ------------------------------------------------------------------------
\* Environment: chains, routers, wallet, hashing
\* ------------------------------------------------------------------------
ChainIds == {1, 2, 3}
\* config.chainConfig: chains 1 and 2 are configured, chain 3 is not.
ChainConfig == {1, 2}
Routers == {"R1", "R2"}
\* An address no router owns (what a wrong signature recovers to).
Stranger == "0xF00"
SignerAddress == "0xUser"
\* Values the network time read can return (seconds).
NtpTimes == {1000}
\* On-chain liquidity of each router on the receiving chain.
RouterLiquidity == [r \in Routers |-> IF r = "R1" THEN 1000 ELSE 45]
\* Contract code present at an address of the receiving chain.
HasCode(addr) == addr = "0xC0DE"

CallDatas == {"0x", "0xaa"}
\* utils.keccak256 on the byte strings of the model: an injective table.
keccak256(data) ==
    CASE data = "0x" -> "0xc5d2"
      [] data = "0xaa" -> "0xdb81"
      [] OTHER -> "0x0bad"
\* encrypt(callData, publicKey)
encrypt(data, publicKey) ==
    CASE data = "0xaa" -> "0xenc_aa"
      [] OTHER -> "0xenc_other"

\* getSubgraphSyncStatus: the subgraph's record, or the default record.
DefaultSyncRecord == [synced |-> FALSE, syncedBlock |-> 0, latestBlock |-> 0]
\* Mutant: a chain without a record counts as synced.
getSubgraphSyncStatusAbsentSynced(records, chainId) ==
    IF records[chainId].present
    THEN [synced |-> records[chainId].synced,
          syncedBlock |-> records[chainId].syncedBlock,
          latestBlock |-> records[chainId].latestBlock]
    ELSE [synced |-> TRUE, syncedBlock |-> 0, latestBlock |-> 0]

getSubgraphSyncStatus(records, chainId) ==
    IF records[chainId].present
    THEN [synced |-> records[chainId].synced,
          syncedBlock |-> records[chainId].syncedBlock,
          latestBlock |-> records[chainId].latestBlock]
    ELSE DefaultSyncRecord

\* ------------------------------------------------------------------------
\* Bids, signatures, responses
\* ------------------------------------------------------------------------
\* encodeAuctionBid: the bid's fields in the canonical order.
encodeAuctionBid(bid) ==
    << bid.user, bid.router, bid.initiator, bid.sendingChainId, bid.sendingAssetId,
       bid.amount, bid.receivingChainId, bid.receivingAssetId, bid.amountReceived,
       bid.receivingAddress, bid.transactionId, bid.expiry, bid.callDataHash,
       bid.callTo, bid.encryptedCallData, bid.bidExpiry >>

\* A signature: who signed, and the encoded bid that was signed.
\* The empty signature ("" or absent) has no signer.
EmptySignature == [signer |-> "", signed |-> << >>]
Sign(who, bid) == [signer |-> who, signed |-> encodeAuctionBid(bid)]

\* recoverAuctionBid(bid, signature): the signer when the signature is over
\* this bid's encoding, an unrelated address otherwise.
recoverAuctionBid(bid, signature) ==
    IF signature # EmptySignature /\ signature.signed = encodeAuctionBid(bid)
    THEN signature.signer
    ELSE Stranger

\* A router's bid on the published payload pl.
MakeBid(pl, router, amountReceived, callDataHash) ==
    [user |-> pl.user, router |-> router, initiator |-> pl.initiator,
     sendingChainId |-> pl.sendingChainId, sendingAssetId |-> pl.sendingAssetId,
     amount |-> pl.amount, receivingChainId |-> pl.receivingChainId,
     receivingAssetId |-> pl.receivingAssetId, amountReceived |-> amountReceived,
     receivingAddress |-> pl.receivingAddress, transactionId |-> pl.transactionId,
     expiry |-> pl.expiry, callDataHash |-> callDataHash, callTo |-> pl.callTo,
     encryptedCallData |-> pl.encryptedCallData, bidExpiry |-> pl.expiry]

\* A message on the auction-response topic: {inbox, data?, err?}, where data
\* is an AuctionResponse {bid, bidSignature?, gasFeeInReceivingToken}.
MakeResponse(inbox, hasData, hasErr, bid, signer) ==
    [inbox |-> inbox, hasData |-> hasData, hasErr |-> hasErr, bid |-> bid,
     bidSignature |-> IF signer = "" THEN EmptySignature ELSE Sign(signer, bid),
     gasFeeInReceivingToken |-> 1]

\* The payload of a request no call of this SDK instance published.
ForeignPayload ==
    [user |-> "0xOther", initiator |-> "0xOther", sendingChainId |-> 1,
     sendingAssetId |-> AddressZero, amount |-> 100, receivingChainId |-> 2,
     receivingAssetId |-> AddressZero, receivingAddress |-> "0xOther",
     callTo |-> AddressZero, callDataHash |-> keccak256("0x"),
     encryptedCallData |-> "0x", expiry |-> 0, transactionId |-> "0xT2",
     dryRun |-> FALSE]

NoResponse ==
    MakeResponse("", FALSE, FALSE, MakeBid(ForeignPayload, "", 0, ""), "")

\* A receiving address no request of this SDK instance names.
OtherReceivingAddress == "0xOther"

\* Amounts a router offers on the receiving chain.
AmountsReceived == {40, 50}

\* The messages the bus can deliver in reply to the request (payload pl,
\* inbox i): well-formed signed bids of every router, and the deviations
\* a router or the bus can produce: an unsigned bid, a signed bid for other
\* call data and another receiving address, an error, a message without
\* data.
RepliesTo(pl, i) ==
    {MakeResponse(i, TRUE, FALSE, MakeBid(pl, r, a, pl.callDataHash), r) :
        r \in Routers, a \in AmountsReceived}
    \cup {MakeResponse(i, TRUE, FALSE, MakeBid(pl, "R1", 50, pl.callDataHash), "")}
    \cup {MakeResponse(i, TRUE, FALSE,
                        [MakeBid(pl, "R1", 50, keccak256("0xbb"))
                            EXCEPT !.receivingAddress = OtherReceivingAddress], "R1")}
    \cup {MakeResponse(i, TRUE, TRUE, MakeBid(pl, "R1", 50, pl.callDataHash), "R1")}
    \cup {MakeResponse(i, FALSE, FALSE, MakeBid(pl, "R1", 50, pl.callDataHash), "R1")}

\* A message addressed to another inbox.
ForeignInbox == "inbox2"
ForeignReplies ==
    {MakeResponse(ForeignInbox, TRUE, FALSE,
                  MakeBid(ForeignPayload, "R1", 50, ForeignPayload.callDataHash), "R1")}

\* ------------------------------------------------------------------------
\* Call parameters (CrossChainParams)
\* ------------------------------------------------------------------------
BaseParams ==
    [valid |-> TRUE, sendingChainId |-> 1, receivingChainId |-> 2,
     sendingAssetId |-> AddressZero, receivingAssetId |-> AddressZero,
     receivingAddress |-> SignerAddress, amount |-> 100,
     slippageTolerance |-> 10, expiry |-> Undefined, dryRun |-> FALSE,
     preferredRouters |-> {}, initiator |-> UndefinedStr,
     callTo |-> UndefinedStr, callData |-> UndefinedStr,
     transactionId |-> "0xT1"]

SlippageChoices ==
    {Undefined, 0, MIN_SLIPPAGE_TOLERANCE, MAX_SLIPPAGE_TOLERANCE,
     MAX_SLIPPAGE_TOLERANCE + 1}
ExpiryOffsets ==
    {hoursToSeconds(24), getMinExpiryBuffer - 1, getMinExpiryBuffer,
     getMaxExpiryBuffer, getMaxExpiryBuffer + 1, daysToSeconds(5)}

\* Calls that differ from the base call in one respect.
ParamsChoices ==
    {BaseParams}
    \cup {[BaseParams EXCEPT !.valid = FALSE]}
    \cup {[BaseParams EXCEPT !.sendingChainId = 3]}
    \cup {[BaseParams EXCEPT !.receivingChainId = 3]}
    \cup {[BaseParams EXCEPT !.slippageTolerance = s] : s \in SlippageChoices}
    \cup {[BaseParams EXCEPT !.expiry = t + o] : t \in NtpTimes, o \in ExpiryOffsets}
    \cup {[BaseParams EXCEPT !.callData = c] : c \in CallDatas}
    \cup {[BaseParams EXCEPT !.callTo = "0xC0DE", !.callData = "0xaa"]}
    \cup {[BaseParams EXCEPT !.dryRun = d, !.preferredRouters = pr] :
            d \in BOOLEAN, pr \in {{}, {"R1"}}}

\* Calls whose auction the routers answer.
AuctionParamsChoices ==
    {BaseParams}
    \cup {[BaseParams EXCEPT !.callTo = "0xC0DE", !.callData = "0xaa",
                             !.preferredRouters = {"R1"}]}
    \cup {[BaseParams EXCEPT !.dryRun = d, !.preferredRouters = pr] :
            d \in BOOLEAN, pr \in {{}, {"R1"}}}

SyncedRecord ==
    [present |-> TRUE, synced |-> TRUE, syncedBlock |-> 10, latestBlock |-> 10]
AllSynced == [c \in ChainIds |-> SyncedRecord]
SyncChoices ==
    {AllSynced,
     [AllSynced EXCEPT ![1] = [present |-> TRUE, synced |-> FALSE,
                               syncedBlock |-> 2, latestBlock |-> 10]],
     [AllSynced EXCEPT ![2] = [present |-> FALSE, synced |-> FALSE,
                               syncedBlock |-> 0, latestBlock |-> 0]],
     [AllSynced EXCEPT ![3] = [present |-> FALSE, synced |-> FALSE,
                               syncedBlock |-> 0, latestBlock |-> 0]]}

\* Calls made while the subgraphs are in any of these states.
SyncParamsChoices ==
    {BaseParams,
     [BaseParams EXCEPT !.valid = FALSE],
     [BaseParams EXCEPT !.sendingChainId = 3],
     [BaseParams EXCEPT !.receivingChainId = 3]}

\* ------------------------------------------------------------------------
\* State
\* ------------------------------------------------------------------------
VARIABLES
    params,         \* the CrossChainParams of the getTransferQuote call
    syncRecords,    \* subgraph sync record of each chain
    repliers,       \* the routers that answer auction requests
    connected,      \* messaging.isConnected()
    subscriptions,  \* subscriptions on the auction-response topic
    pc,             \* position of the getTransferQuote call
    io,             \* I/O the getTransferQuote call has performed, in order
    local,          \* locals of the call: user, blockTimestamp, expiry, ...
    payload,        \* the auction request payload
    published,      \* the auction request is on the bus
    publishedAt,    \* time at which the publish returned
    handler,        \* the call's handler on auctionResponseEvt
    bids,           \* responses accumulated by the open auction's handler
    promise,        \* auctionBidsPromise
    startTime,      \* time at which auctionBidsPromise was created
    settledAt,      \* time at which auctionBidsPromise was settled
    filtered,       \* per-response validation result
    result,         \* what the caller of getTransferQuote receives
    resolvedAt,     \* time at which the call returned or threw
    posted,         \* number of messages the bus has delivered
    now,            \* clock (ms)
    ppc,            \* position of the prepareTransfer call
    transferParams, \* the AuctionResponse given to prepareTransfer
    fromQuote,      \* transferParams is the response getTransferQuote returned
    pio,            \* I/O the prepareTransfer call has performed, in order
    presult,        \* what the caller of prepareTransfer receives
    fcalls,         \* the fulfillTransfer calls, by call id
    emitted,        \* ReceiverTransactionFulfilled events emitted, in order
    qcalls,         \* concurrent getTransferQuote calls, by call id
    userConnects,   \* connectMessaging calls the user has made
    ctor,           \* the constructor call: its config, position and outcome
    feeCall,        \* the estimateFulfillFee call
    rprepare,       \* the router's receiver-side prepare operation
    reader,         \* the transaction service's ChainReader and its reads
    gate            \* the slippage check of one collected response

quoteVars ==
    << params, syncRecords, repliers, connected, subscriptions, pc, io, local,
       payload, published, publishedAt, handler, bids, promise, startTime,
       settledAt, filtered, result, resolvedAt, posted, now >>
prepareVars == << ppc, transferParams, fromQuote, pio, presult >>
\* The constructor, estimateFulfillFee and the router's prepare.
auxVars == << ctor, feeCall, rprepare, reader, gate >>
sharedVars == << fcalls, emitted, qcalls, userConnects, auxVars >>
\* The state of the calls of the auction, prepare and fulfill models.
progVars ==
    << quoteVars, prepareVars, fcalls, emitted, qcalls, userConnects >>
\* The state of the single getTransferQuote / prepareTransfer call.
soloVars ==
    << params, syncRecords, repliers, pc, io, local, payload, published,
       publishedAt, handler, bids, promise, startTime, settledAt, filtered,
       result, resolvedAt, prepareVars, auxVars >>
vars == << quoteVars, prepareVars, sharedVars >>

NoResult ==
    [status |-> "none", value |-> NoResponse, error |-> "", cause |-> "",
     reasons |-> << >>]
NoLocal ==
    [user |-> "", blockTimestamp |-> 0, expiry |-> 0, callTo |-> "",
     callData |-> "", callDataHash |-> "", encryptedCallData |-> "",
     inbox |-> "", validSeen |-> FALSE, hasFirst |-> FALSE,
     first |-> NoResponse, firstAt |-> 0, errSeen |-> FALSE,
     lateSeen |-> FALSE]
NoPromise == [state |-> "none", value |-> << >>]
NoRequest ==
    [chainId |-> 0, txData |-> [transactionId |-> ""], amount |-> 0, expiry |-> 0,
     encryptedCallData |-> "", bidSignature |-> EmptySignature,
     encodedBid |-> << >>]
NoPrepareResult == [status |-> "none", error |-> "", request |-> NoRequest]

\* fulfillTransfer calls: at most two at a time.
FulfillIds == {1, 2}
NoEvent == [transactionId |-> "", transactionHash |-> 0, receivingChainId |-> 0]
NoFulfillRequest == [chainId |-> 0, transactionId |-> ""]
NoMetaTxRequest == [type |-> "", to |-> "", chainId |-> 0, transactionId |-> ""]
NoMetaTxResponse == [transactionHash |-> 0, chainId |-> 0]
NoFulfillResult ==
    [status |-> "none", error |-> "",
     hasFulfillRequest |-> FALSE, fulfillRequest |-> NoFulfillRequest,
     hasMetaTxResponse |-> FALSE, metaTxResponse |-> NoMetaTxResponse]
\* A fulfillTransfer call that was not made.
OffFulfillCall ==
    [pc |-> "off", valid |-> TRUE, transactionId |-> "", sendingChainId |-> 1,
     receivingChainId |-> 2, useRelayers |-> FALSE,
     connectAt |-> 0, regAt |-> 0, regIdx |-> 0, wait |-> "none",
     event |-> NoEvent, settledAt |-> 0, settleIdx |-> 0,
     request |-> NoMetaTxRequest,
     io |-> << >>, result |-> NoFulfillResult,
     resolvedAt |-> 0]
\* fulfillTransfer(params, fulfillSignature, decryptedCallData, relayerFee,
\* useRelayers) about to be called.
FulfillCall(transactionId, valid, sendingChainId, useRelayers) ==
    [OffFulfillCall EXCEPT !.pc = "start", !.transactionId = transactionId,
                           !.valid = valid, !.sendingChainId = sendingChainId,
                           !.useRelayers = useRelayers]
\* The calls of a run: the first in every shape, the second (for another
\* transfer) absent, through relayers, or direct.
FulfillChoices ==
    {[c \in FulfillIds |-> IF c = 1 THEN a ELSE b] :
        a \in {FulfillCall("0xT1", TRUE, 1, u) : u \in BOOLEAN}
               \cup {FulfillCall("0xT1", FALSE, 1, TRUE),
                     FulfillCall("0xT1", TRUE, 3, TRUE)},
        b \in {OffFulfillCall, FulfillCall("0xT2", TRUE, 1, TRUE),
               FulfillCall("0xT2", TRUE, 1, FALSE)}}
NoFulfillCalls == [c \in FulfillIds |-> OffFulfillCall]

\* Concurrent getTransferQuote calls: at most two at a time.
CallIds == {1, 2}
OffQuoteCall ==
    [pc |-> "off", params |-> BaseParams, inbox |-> "", attached |-> FALSE,
     published |-> FALSE, bids |-> << >>, promise |-> NoPromise,
     result |-> NoResult, seen |-> 0, late |-> FALSE]
NoQuoteCalls == [c \in CallIds |-> OffQuoteCall]
\* A call that has passed its parameter checks.
QuoteCall(p) == [OffQuoteCall EXCEPT !.pc = "start", !.params = p]
\* Two calls for different transfers: the first an open auction or a dry
\* run, the second an open auction or one that waits for a preferred router.
QuoteCallChoices ==
    {<< QuoteCall([BaseParams EXCEPT !.dryRun = d]),
        QuoteCall([BaseParams EXCEPT !.transactionId = "0xT2",
                                     !.preferredRouters = pr]) >> :
        d \in BOOLEAN, pr \in {{}, {"R1"}}}

\* ------------------------------------------------------------------------
\* The constructor: the per-chain configuration
\* ------------------------------------------------------------------------
\* What the bundled registry answers for a contract of a chain: nothing, a
\* record without an address, or a record with one.
RegistryEntries == {"none", "noAddress", "address"}

\* A chain's entry of chainConfig (which of the optional fields it gives),
\* with what the registry holds for that chain and whether the chain is
\* among getDeployedChainIdsForGasFee().
ChainEntries ==
    [tmGiven : BOOLEAN, oracleGiven : BOOLEAN, subgraphGiven : BOOLEAN,
     tmRegistry : RegistryEntries, oracleRegistry : RegistryEntries,
     subgraphRegistry : BOOLEAN, gasFeeChain : BOOLEAN]

\* Entries of a chain the registry does not know.
UnknownChainEntries ==
    {e \in ChainEntries : /\ e.tmRegistry = "none"
                          /\ e.oracleRegistry = "none"
                          /\ ~e.subgraphRegistry}

\* The chainConfig objects: chain 1 alone, or chain 1 with a chain the
\* registry does not know.
ChainConfigChoices ==
    {[c \in {1} |-> e] : e \in ChainEntries}
        \cup {[c \in {1, 2} |-> IF c = 1 THEN e ELSE u] :
                e \in ChainEntries, u \in UnknownChainEntries}

\* Object.entries(chainConfig): integer keys come in ascending order.
ObjectEntries(ids) ==
    CHOOSE q \in [1..Cardinality(ids) -> ids] :
        \A i, j \in 1..Cardinality(ids) : i < j => q[i] < q[j]

\* No transaction manager address: none given and none in the registry.
TransactionManagerMissing(e) == ~e.tmGiven /\ e.tmRegistry # "address"

\* Mutant: the registry's price oracle is looked up for every chain.
NeedsPriceOracleEveryChain(e) == ~e.oracleGiven
\* The registry's price oracle is looked up when none is given and the
\* chain is one of the chains for the gas fee.
NeedsPriceOracle(e) == ~e.oracleGiven /\ e.gasFeeChain

PriceOracleMissing(e) == NeedsPriceOracle(e) /\ e.oracleRegistry # "address"

\* priceOracleAddress || constants.AddressZero
PriceOracleAddress(e) ==
    IF e.oracleGiven THEN "given"
    ELSE IF NeedsPriceOracle(e) THEN "registry" ELSE "AddressZero"

\* No subgraph: none given and getDeployedSubgraphUri() has none.
SubgraphMissing(e) == ~e.subgraphGiven /\ ~e.subgraphRegistry

\* What one iteration of the loop over the chains throws.
ChainError(e) ==
    IF TransactionManagerMissing(e) THEN "NoTransactionManager"
    ELSE IF PriceOracleMissing(e) THEN "NoPriceOracle"
    ELSE IF SubgraphMissing(e) THEN "NoSubgraph"
    ELSE "none"

NoCtorError == [type |-> "none", chainId |-> 0]
\* The constructor before its loop over the chains of a config.
CtorCall(cfg) ==
    [pc |-> "chains", chainConfig |-> cfg,
     pending |-> ObjectEntries(DOMAIN cfg),
     txManagerConfig |-> << >>, subgraphConfig |-> {},
     error |-> NoCtorError]
\* No constructor call in progress: an instance built for ChainConfig.
OffCtor ==
    [pc |-> "off", chainConfig |-> << >>, pending |-> << >>,
     txManagerConfig |-> << >>, subgraphConfig |-> {},
     error |-> NoCtorError]

\* One iteration of the loop: the chain's transaction manager, its price
\* oracle, its subgraph; a throw ends the constructor.
ConstructChain ==
    /\ ctor.pc = "chains"
    /\ ctor.pending # << >>
    /\ LET chainId == Head(ctor.pending)
           e == ctor.chainConfig[chainId]
           thrown == ChainError(e)
           txManagerConfig ==
               IF thrown \in {"none", "NoSubgraph"}
               THEN [c \in DOMAIN ctor.txManagerConfig \cup {chainId} |->
                       IF c = chainId
                       THEN [priceOracleAddress |-> PriceOracleAddress(e)]
                       ELSE ctor.txManagerConfig[c]]
               ELSE ctor.txManagerConfig
       IN ctor' =
            IF thrown # "none"
            THEN [ctor EXCEPT !.pc = "done",
                              !.txManagerConfig = txManagerConfig,
                              !.error = [type |-> thrown,
                                         chainId |-> chainId]]
            ELSE [ctor EXCEPT !.pending = Tail(@),
                              !.txManagerConfig = txManagerConfig,
                              !.subgraphConfig = @ \cup {chainId}]
    /\ UNCHANGED << progVars, feeCall, rprepare, reader, gate >>

\* After the loop: the TransactionManager and the Subgraph are created.
ConstructFinish ==
    /\ ctor.pc = "chains"
    /\ ctor.pending = << >>
    /\ ctor' = [ctor EXCEPT !.pc = "done"]
    /\ UNCHANGED << progVars, feeCall, rprepare, reader, gate >>

Constructed == ctor.pc = "done" /\ ctor.error.type = "none"

\* ------------------------------------------------------------------------
\* estimateFulfillFee and the router's prepare: the calls before they start
\* ------------------------------------------------------------------------
NoFeeResult == [status |-> "none", value |-> 0, error |-> "none"]
OffFeeCall ==
    [pc |-> "idle", receivingChainId |-> 0, request |-> << >>,
     answered |-> FALSE, gasNeeded |-> 0, result |-> NoFeeResult]

\* What the helpers and the two balance readers answer to the router's
\* prepare: the stubs of the operation's tests.
NoStubs ==
    [invariantValid |-> TRUE, inputValid |-> TRUE, signerRecovered |-> TRUE,
     receiverAmount |-> 0, assetBalance |-> 0, routerBalance |-> 0,
     validExpiry |-> TRUE, transactionIdMatches |-> TRUE,
     validBidExpiry |-> TRUE]
NoRouterResult == [status |-> "none", error |-> "none", receipt |-> 0]
\* The two arguments of the router's prepare: the invariant data of the
\* transfer and the prepare input.
NoRouterInput ==
    [txData |-> [transactionId |-> "", receivingChainId |-> 0],
     bidSignature |-> "", encodedBid |-> "", encryptedCallData |-> ""]
OffRouterPrepare ==
    [pc |-> "idle", stubs |-> NoStubs, input |-> NoRouterInput,
     io |-> << >>, blockTime |-> 0, expiryBuffer |-> 0,
     submitted |-> << >>, result |-> NoRouterResult]

\* A read of the ChainReader: the method, its chain and argument, what
\* the provider answered and what the read gave back.
NoRead ==
    [method |-> "none", chainId |-> 0, arg |-> "none",
     answer |-> [isOk |-> FALSE, value |-> 0, error |-> "none"],
     providerCalls |-> << >>,
     result |-> [status |-> "none", value |-> 0, error |-> "none"]]
\* A ChainReader with no read made.
OffReader == [pc |-> "idle", read |-> NoRead, reads |-> << >>]

\* No response under the slippage check.
OffGate ==
    [pc |-> "idle", amount |-> 0, slippageTolerance |-> 0,
     data |-> [bid |-> [amountReceived |-> 0], gasFeeInReceivingToken |-> 0],
     lowerBound |-> 0, passes |-> FALSE]

\* No constructor, fee estimate or router operation in progress.
InitAux ==
    /\ ctor = OffCtor
    /\ feeCall = OffFeeCall
    /\ rprepare = OffRouterPrepare
    /\ reader = OffReader
    /\ gate = OffGate

\* The single call's state after construction of the SDK.
InitSolo ==
    /\ connected = FALSE
    /\ subscriptions = 0
    /\ pc = "schema"
    /\ io = << >>
    /\ local = NoLocal
    /\ payload = ForeignPayload
    /\ published = FALSE
    /\ publishedAt = 0
    /\ handler = "none"
    /\ bids = << >>
    /\ promise = NoPromise
    /\ startTime = 0
    /\ settledAt = 0
    /\ filtered = << >>
    /\ result = NoResult
    /\ resolvedAt = 0
    /\ posted = 0
    /\ now = 0
    /\ ppc = "idle"
    /\ transferParams = NoResponse
    /\ fromQuote = FALSE
    /\ pio = << >>
    /\ presult = NoPrepareResult

Init ==
    /\ \/ params \in ParamsChoices /\ syncRecords = AllSynced /\ repliers = {}
       \/ params \in SyncParamsChoices /\ syncRecords \in SyncChoices
          /\ repliers = {}
       \/ params \in AuctionParamsChoices /\ syncRecords = AllSynced
          /\ repliers = Routers
    /\ InitSolo
    /\ fcalls = NoFulfillCalls
    /\ emitted = << >>
    /\ qcalls = NoQuoteCalls
    /\ userConnects = 0
    /\ InitAux

\* ------------------------------------------------------------------------
\* getTransferQuote: parameter checks, up to the creation of the auction
\* ------------------------------------------------------------------------
\* Mutant: the network time is read before the slippage check.
QuoteNextPcTimeFirst(p) ==
    CASE p = "schema" -> "signer"
      [] p = "signer" -> "chains"
      [] p = "chains" -> "sync"
      [] p = "sync" -> "time"
      [] p = "time" -> "slippage"
      [] p = "slippage" -> "expiry"
      [] p = "expiry" -> "encrypt"
      [] p = "encrypt" -> "connect"
      [] p = "connect" -> "auction"
      [] p = "auction" -> "publish"
      [] p = "publish" -> "await"

\* Mutant: the request is published before the promise is created.
QuoteNextPcPublishFirst(p) ==
    CASE p = "schema" -> "signer"
      [] p = "signer" -> "chains"
      [] p = "chains" -> "sync"
      [] p = "sync" -> "slippage"
      [] p = "slippage" -> "time"
      [] p = "time" -> "expiry"
      [] p = "expiry" -> "encrypt"
      [] p = "encrypt" -> "connect"
      [] p = "connect" -> "publish"
      [] p = "publish" -> "auction"
      [] p = "auction" -> "await"

\* The order of the statements of getTransferQuote.
QuoteNextPc(p) ==
    CASE p = "schema" -> "signer"
      [] p = "signer" -> "chains"
      [] p = "chains" -> "sync"
      [] p = "sync" -> "slippage"
      [] p = "slippage" -> "time"
      [] p = "time" -> "expiry"
      [] p = "expiry" -> "encrypt"
      [] p = "encrypt" -> "connect"
      [] p = "connect" -> "auction"
      [] p = "auction" -> "publish"
      [] p = "publish" -> "await"

\* The call throws err to its caller.
QuoteThrow(err, cause, reasons) ==
    /\ result' = [status |-> "error", value |-> NoResponse, error |-> err,
                  cause |-> cause, reasons |-> reasons]
    /\ resolvedAt' = now
    /\ pc' = "done"

\* The call returns response to its caller.
QuoteReturn(response) ==
    /\ result' = [status |-> "ok", value |-> response, error |-> "",
                  cause |-> "", reasons |-> << >>]
    /\ resolvedAt' = now
    /\ pc' = "done"

QuoteGoOn ==
    /\ pc' = QuoteNextPc(pc)
    /\ UNCHANGED << result, resolvedAt >>

\* Validate params schema.
QuoteSchema ==
    /\ pc = "schema" /\ ppc = "idle"
    /\ IF ~params.valid
       THEN QuoteThrow("InvalidParamStructure", "", << >>)
       ELSE QuoteGoOn
    /\ UNCHANGED << params, syncRecords, repliers, connected, subscriptions, io, local,
                    payload, published, publishedAt, handler, bids, promise, startTime,
                    settledAt, filtered, posted, now, prepareVars, sharedVars >>

\* const user = await this.config.signerAddress
QuoteSigner ==
    /\ pc = "signer" /\ ppc = "idle"
    /\ local' = [local EXCEPT !.user = SignerAddress]
    /\ QuoteGoOn
    /\ UNCHANGED << params, syncRecords, repliers, connected, subscriptions, io, payload,
                    published, publishedAt, handler, bids, promise, startTime, settledAt,
                    filtered, posted, now, prepareVars, sharedVars >>

\* Both chains must be in config.chainConfig.
QuoteChains ==
    /\ pc = "chains" /\ ppc = "idle"
    /\ IF params.sendingChainId \notin ChainConfig
          \/ params.receivingChainId \notin ChainConfig
       THEN QuoteThrow("ChainNotConfigured", "", << >>)
       ELSE QuoteGoOn
    /\ UNCHANGED << params, syncRecords, repliers, connected, subscriptions, io, local,
                    payload, published, publishedAt, handler, bids, promise, startTime,
                    settledAt, filtered, posted, now, prepareVars, sharedVars >>

\* Both subgraphs must be synced.
QuoteSync ==
    /\ pc = "sync" /\ ppc = "idle"
    /\ IF ~getSubgraphSyncStatus(syncRecords, params.sendingChainId).synced
          \/ ~getSubgraphSyncStatus(syncRecords, params.receivingChainId).synced
       THEN QuoteThrow("SubgraphsNotSynced", "", << >>)
       ELSE QuoteGoOn
    /\ UNCHANGED << params, syncRecords, repliers, connected, subscriptions, io, local,
                    payload, published, publishedAt, handler, bids, promise, startTime,
                    settledAt, filtered, posted, now, prepareVars, sharedVars >>

\* Mutant: no default is substituted.
SlippageOfNoDefault(p) == p.slippageTolerance

\* slippageTolerance = DEFAULT_SLIPPAGE_TOLERANCE when omitted.
SlippageOf(p) ==
    IF p.slippageTolerance = Undefined
    THEN DEFAULT_SLIPPAGE_TOLERANCE
    ELSE p.slippageTolerance

QuoteSlippage ==
    /\ pc = "slippage" /\ ppc = "idle"
    /\ IF SlippageOf(params) < MIN_SLIPPAGE_TOLERANCE
          \/ SlippageOf(params) > MAX_SLIPPAGE_TOLERANCE
       THEN QuoteThrow("InvalidSlippage", "", << >>)
       ELSE QuoteGoOn
    /\ UNCHANGED << params, syncRecords, repliers, connected, subscriptions, io, local,
                    payload, published, publishedAt, handler, bids, promise, startTime,
                    settledAt, filtered, posted, now, prepareVars, sharedVars >>

\* const blockTimestamp = await getTimestampInSeconds()  (network time)
QuoteTime ==
    /\ pc = "time" /\ ppc = "idle"
    /\ \E ts \in NtpTimes :
         local' = [local EXCEPT
                     !.blockTimestamp = ts,
                     !.expiry = IF params.expiry = Undefined
                                THEN getExpiry(ts) ELSE params.expiry]
    /\ io' = Append(io, "timeRead")
    /\ QuoteGoOn
    /\ UNCHANGED << params, syncRecords, repliers, connected, subscriptions, payload,
                    published, publishedAt, handler, bids, promise, startTime, settledAt,
                    filtered, posted, now, prepareVars, sharedVars >>

QuoteExpiry ==
    /\ pc = "expiry" /\ ppc = "idle"
    /\ IF local.expiry - local.blockTimestamp < getMinExpiryBuffer
          \/ local.expiry - local.blockTimestamp > getMaxExpiryBuffer
       THEN QuoteThrow("InvalidExpiry", "", << >>)
       ELSE QuoteGoOn
    /\ UNCHANGED << params, syncRecords, repliers, connected, subscriptions, io, local,
                    payload, published, publishedAt, handler, bids, promise, startTime,
                    settledAt, filtered, posted, now, prepareVars, sharedVars >>

\* Mutant: the call data is always encrypted.
NeedsEncryptionAlways(callData) == TRUE

\* if (callData !== "0x")
NeedsEncryption(callData) == callData # "0x"

\* callTo, callData, callDataHash; encryption of the call data through the
\* wallet when callData is not "0x".
QuoteEncrypt ==
    /\ pc = "encrypt" /\ ppc = "idle"
    /\ LET callTo == IF params.callTo = UndefinedStr THEN AddressZero ELSE params.callTo
           callData == IF params.callData = UndefinedStr THEN "0x" ELSE params.callData
           l == [local EXCEPT !.callTo = callTo, !.callData = callData,
                              !.callDataHash = keccak256(callData),
                              !.encryptedCallData = "0x"]
       IN IF NeedsEncryption(callData)
          THEN /\ io' = Append(io, "walletRequest")
               /\ \E ok \in BOOLEAN :
                    IF ok
                    THEN /\ local' = [l EXCEPT !.encryptedCallData =
                                          encrypt(callData, "pk")]
                         /\ QuoteGoOn
                    ELSE /\ local' = l
                         /\ QuoteThrow("EncryptionError", "", << >>)
          ELSE /\ io' = io
               /\ local' = l
               /\ QuoteGoOn
    /\ UNCHANGED << params, syncRecords, repliers, connected, subscriptions, payload,
                    published, publishedAt, handler, bids, promise, startTime, settledAt,
                    filtered, posted, now, prepareVars, sharedVars >>

\* connectMessaging: connect, subscribe to the auction-response topic,
\* delay(1000).
ConnectDelay == 1000

\* messaging.subscribeToAuctionResponse(callback): the callback becomes one
\* more consumer of the auction-response topic.
subscribeToAuctionResponse(n) == n + 1

\* if (!this.messaging.isConnected()) await this.connectMessaging()
QuoteConnect ==
    /\ pc = "connect" /\ ppc = "idle"
    /\ IF ~connected
       THEN /\ connected' = TRUE
            /\ subscriptions' = subscribeToAuctionResponse(subscriptions)
            /\ io' = Append(io, "busConnect")
            /\ now' = now + ConnectDelay
       ELSE UNCHANGED << connected, subscriptions, io, now >>
    /\ QuoteGoOn
    /\ UNCHANGED << params, syncRecords, repliers, local, payload, published, publishedAt, handler,
                    bids, promise, startTime, settledAt, filtered, posted,
                    prepareVars, sharedVars >>

\* The user calls connectMessaging before asking for a quote.
ConnectMessaging ==
    /\ pc = "schema" /\ ppc = "idle"
    /\ ~connected
    /\ connected' = TRUE
    /\ subscriptions' = subscribeToAuctionResponse(subscriptions)
    /\ now' = now + ConnectDelay
    /\ UNCHANGED << params, syncRecords, repliers, pc, io, local, payload, published, publishedAt,
                    handler, bids, promise, startTime, settledAt, filtered,
                    result, resolvedAt, posted, prepareVars, sharedVars >>

\* ------------------------------------------------------------------------
\* getTransferQuote: the auction
\* ------------------------------------------------------------------------
\* The reasons for which a response is rejected.
SignatureMsg == "Invalid router signature on bid"
LiquidityMsg == "Router's liquidity low"
LiquidityErrorMsg == "Error getting router liquidity"
PriceMsg == "Invalid bid price: price impact is more than the slippage tolerance"

\* Mutant: every mode waits the doubled window.
WaitLimitDoubled(p) == AUCTION_TIMEOUT * 2

\* How long auctionBidsPromise waits: AUCTION_TIMEOUT, doubled when the
\* call waits for preferred routers (dryRun is tested first).
WaitLimit(p) ==
    IF p.dryRun THEN AUCTION_TIMEOUT
    ELSE IF p.preferredRouters # {} THEN AUCTION_TIMEOUT * 2
    ELSE AUCTION_TIMEOUT

\* Mutant: the err pipe is missing.
AcceptsWithErr(p, inbox, msg) ==
    /\ msg.inbox = inbox
    /\ msg.hasData
    /\ (~p.dryRun /\ p.preferredRouters # {}) => msg.bid.router \in p.preferredRouters

\* Mutant: the inbox pipe is missing.
AcceptsAnyInbox(p, inbox, msg) ==
    /\ msg.hasData
    /\ ~msg.hasErr
    /\ (~p.dryRun /\ p.preferredRouters # {}) => msg.bid.router \in p.preferredRouters

\* Mutant: only the preferred-router auction resolves on its first response.
ResolvesEarlyPreferredOnly(p) == p.preferredRouters # {}

\* The auctions that wait for one response (waitFor) instead of collecting
\* responses until the timer fires: dryRun and preferred routers.
ResolvesEarly(p) == p.dryRun \/ p.preferredRouters # {}

\* The pipes in front of the call's handler.
Accepts(p, inbox, msg) ==
    /\ msg.inbox = inbox
    /\ msg.hasData
    /\ ~msg.hasErr
    /\ (~p.dryRun /\ p.preferredRouters # {}) => msg.bid.router \in p.preferredRouters

\* The auction request payload.
MakePayload(p, l) ==
    [user |-> l.user,
     initiator |-> IF p.initiator = UndefinedStr THEN l.user ELSE p.initiator,
     sendingChainId |-> p.sendingChainId, sendingAssetId |-> p.sendingAssetId,
     amount |-> p.amount, receivingChainId |-> p.receivingChainId,
     receivingAssetId |-> p.receivingAssetId,
     receivingAddress |-> p.receivingAddress, callTo |-> l.callTo,
     callDataHash |-> l.callDataHash, encryptedCallData |-> l.encryptedCallData,
     expiry |-> l.expiry, transactionId |-> p.transactionId, dryRun |-> p.dryRun]

\* generateMessagingInbox, creation of auctionBidsPromise (the handler is
\* attached and the timer started inside the promise's executor), payload.
QuoteOpenAuction ==
    /\ pc = "auction" /\ ppc = "idle"
    /\ local' = [local EXCEPT !.inbox = "inbox1"]
    /\ promise' = [state |-> "pending", value |-> << >>]
    /\ handler' = "attached"
    /\ startTime' = now
    /\ payload' = MakePayload(params, local)
    /\ QuoteGoOn
    /\ UNCHANGED << params, syncRecords, repliers, connected, subscriptions, io, published, publishedAt,
                    bids, settledAt, filtered, posted, now, prepareVars, sharedVars >>

\* await this.messaging.publishAuctionRequest(payload, inbox)
QuotePublish ==
    /\ pc = "publish" /\ ppc = "idle"
    /\ io' = Append(io, "busPublish")
    /\ \E ok \in BOOLEAN :
         IF ok
         THEN published' = TRUE /\ publishedAt' = now /\ QuoteGoOn
         ELSE /\ UNCHANGED << published, publishedAt >>
              /\ QuoteThrow("MessagingError", "", << >>)
    /\ UNCHANGED << params, syncRecords, repliers, connected, subscriptions, local, payload,
                    handler, bids, promise, startTime, settledAt, filtered,
                    posted, now, prepareVars, sharedVars >>

\* Mutant: only checks that some signer was recovered.
SignatureGateAnySigner(data) ==
    recoverAuctionBid(data.bid, data.bidSignature) # ""

\* signer === data.bid.router
SignatureGate(data) ==
    recoverAuctionBid(data.bid, data.bidSignature) = data.bid.router

\* !routerLiq.lt(data.bid.amountReceived)
LiquidityGate(routerLiq, data) ==
    ~(routerLiq < data.bid.amountReceived)

\* 1 - parseFloat(slippageTolerance) / 100, as a number of RateScale-ths.
RateScale == 10000
lowerBoundExchangeRateAbove(slippageTolerance) == RateScale + slippageTolerance
lowerBoundExchangeRate(slippageTolerance) == RateScale - slippageTolerance

\* calculateExchangeAmount(inputAmount, swapRate).split(".")[0]: the integer
\* part of the product.
calculateExchangeAmount(inputAmount, swapRate) ==
    IF inputAmount * swapRate >= 0
    THEN (inputAmount * swapRate) \div RateScale
    ELSE -((-(inputAmount * swapRate)) \div RateScale)

LowerBound(data, slippageTolerance) ==
    calculateExchangeAmount(data.bid.amountReceived - data.gasFeeInReceivingToken,
                            lowerBoundExchangeRate(slippageTolerance))

\* !BigNumber.from(data.bid.amountReceived).lt(lowerBound)
SlippageGate(data, slippageTolerance) ==
    ~(data.bid.amountReceived < LowerBound(data, slippageTolerance))

\* A response that passes the pipes of the call and every gate of its
\* validation.
ValidFor(p, inbox, msg) ==
    /\ Accepts(p, inbox, msg)
    /\ recoverAuctionBid(msg.bid, msg.bidSignature) = msg.bid.router
    /\ ~(RouterLiquidity[msg.bid.router] < msg.bid.amountReceived)
    /\ ~(msg.bid.amountReceived <
           calculateExchangeAmount(
               msg.bid.amountReceived - msg.gasFeeInReceivingToken,
               lowerBoundExchangeRate(SlippageOf(p))))

\* The bus delivers a message on the auction-response topic: every
\* subscription posts it on auctionResponseEvt, whose attached handlers run.
\* The bus is followed while the call is in flight; local.validSeen notes
\* that a valid response of a preferred router was delivered in the window,
\* local.first the first response with data and no err that reached the
\* inbox of a dryRun call before its timer fired, local.errSeen that a
\* response with data and err reached the inbox while the handler was
\* attached, local.lateSeen that a response with data and no err reached it
\* after the handler was detached.
BusResponse ==
    /\ subscriptions > 0 /\ ppc = "idle" /\ pc # "done"
    /\ posted < MaxResponses
    /\ posted' = posted + 1
    /\ \E msg \in ForeignReplies \cup
                  (IF published
                   THEN {m \in RepliesTo(payload, local.inbox) :
                           m.bid.router \in repliers}
                   ELSE {}) :
      /\ local' =
           LET noted == [local EXCEPT
                           !.errSeen =
                               @ \/ (/\ handler = "attached"
                                     /\ msg.inbox = local.inbox
                                     /\ msg.hasData /\ msg.hasErr),
                           !.lateSeen =
                               @ \/ (/\ handler = "detached"
                                     /\ msg.inbox = local.inbox
                                     /\ msg.hasData /\ ~msg.hasErr)]
           IN IF params.dryRun
              THEN IF /\ ~local.hasFirst /\ promise.state = "pending"
                      /\ msg.inbox = local.inbox /\ msg.hasData /\ ~msg.hasErr
                   THEN [noted EXCEPT !.hasFirst = TRUE, !.first = msg,
                                      !.firstAt = now]
                   ELSE noted
              ELSE [noted EXCEPT !.validSeen =
                       @ \/ (/\ params.preferredRouters # {}
                             /\ now <= startTime + WaitLimit(params)
                             /\ ValidFor(params, local.inbox, msg))]
      /\ (IF handler = "attached" /\ Accepts(params, local.inbox, msg)
         THEN IF ~ResolvesEarly(params)
              THEN /\ bids' = bids \o [i \in 1..subscriptions |-> msg]
                   /\ UNCHANGED << promise, handler, settledAt >>
              ELSE /\ promise' = [state |-> "resolved", value |-> << msg >>]
                   /\ handler' = "detached"
                   /\ settledAt' = now
                   /\ bids' = bids
         ELSE UNCHANGED << bids, promise, handler, settledAt >>)
    /\ UNCHANGED << params, syncRecords, repliers, connected, subscriptions, pc, io,
                    payload, published, publishedAt, startTime, filtered, result, resolvedAt,
                    now, prepareVars, sharedVars >>

\* Mutant: the timer is dropped when the call is no longer waiting for it.
TimerFireWhileAwaited ==
    /\ promise.state = "pending"
    /\ pc \in {"publish", "await"}
    /\ now >= startTime + WaitLimit(params)
    /\ handler' = "detached"
    /\ settledAt' = now
    /\ IF ~ResolvesEarly(params)
       THEN promise' = [state |-> "resolved", value |-> bids]
       ELSE promise' = [state |-> "rejected", value |-> << >>]
    /\ UNCHANGED << params, syncRecords, repliers, connected, subscriptions, pc, io, local,
                    payload, published, publishedAt, bids, startTime, filtered, result,
                    resolvedAt, posted, now, prepareVars, sharedVars >>

\* Mutant: the timer resolves the promise and leaves the handler attached.
TimerFireKeepsHandler ==
    /\ promise.state = "pending"
    /\ now >= startTime + WaitLimit(params)
    /\ settledAt' = now
    /\ IF ~ResolvesEarly(params)
       THEN promise' = [state |-> "resolved", value |-> bids]
       ELSE promise' = [state |-> "rejected", value |-> << >>]
    /\ UNCHANGED << params, syncRecords, repliers, connected, subscriptions, pc, io, local,
                    payload, published, publishedAt, bids, startTime, filtered, result,
                    resolvedAt, posted, now, prepareVars, sharedVars, handler >>

\* The timer of auctionBidsPromise fires: the open auction detaches its
\* handler and resolves with the bids; waitFor rejects with a timeout.
TimerFire ==
    /\ promise.state = "pending"
    /\ now >= startTime + WaitLimit(params)
    /\ handler' = "detached"
    /\ settledAt' = now
    /\ IF ~ResolvesEarly(params)
       THEN promise' = [state |-> "resolved", value |-> bids]
       ELSE promise' = [state |-> "rejected", value |-> << >>]
    /\ UNCHANGED << params, syncRecords, repliers, connected, subscriptions, pc, io, local,
                    payload, published, publishedAt, bids, startTime, filtered, result,
                    resolvedAt, posted, now, prepareVars, sharedVars >>

\* Time passes while the call waits for the bus, the timer or the chain
\* reads (which are issued together: their latency passes before the first
\* of them returns). A due timer fires before time moves on.
Tick ==
    /\ ppc = "idle"
    /\ \/ promise.state = "pending"
       \/ pc = "publish"
       \/ pc = "validating" /\ \A i \in 1..Len(filtered) :
                                 filtered[i] \in {"pending", SignatureMsg}
    /\ promise.state = "pending" => now < startTime + WaitLimit(params)
    /\ now < startTime + MaxTicks * TickMs
    /\ now' = now + TickMs
    /\ UNCHANGED << params, syncRecords, repliers, connected, subscriptions, pc, io, local,
                    payload, published, publishedAt, handler, bids, promise, startTime,
                    settledAt, filtered, result, resolvedAt, posted,
                    prepareVars, sharedVars >>

\* ------------------------------------------------------------------------
\* getTransferQuote: validation and ranking of the collected responses
\* ------------------------------------------------------------------------

\* The comparator given to Array.prototype.sort.
Compare(a, b) ==
    IF b.bid.amountReceived > a.bid.amountReceived THEN -1 ELSE 1

\* Array.prototype.sort(Compare): where the comparator is decisive about a
\* pair, the pair is in that order; where it calls a pair equal (0 both
\* ways) the pair keeps its order; where it contradicts itself (as Compare
\* does on equal amounts, answering 1 both ways) ECMAScript leaves the order
\* to the implementation, and every order is possible.
ArraySort(arr) ==
    LET n == Len(arr)
        Before(x, y) == Compare(x, y) < 0 /\ Compare(y, x) > 0
        Equal(x, y) == Compare(x, y) = 0 /\ Compare(y, x) = 0
        Perms == {q \in [1..n -> 1..n] : \A i, j \in 1..n : i # j => q[i] # q[j]}
    IN {[i \in 1..n |-> arr[q[i]]] : q \in
          {q \in Perms : \A i, j \in 1..n : i < j =>
                /\ ~Before(arr[q[j]], arr[q[i]])
                /\ Equal(arr[q[i]], arr[q[j]]) => q[i] < q[j]}}

\* The responses Array.prototype.sort(Compare) can leave at index 0.
SortHeads(arr) ==
    LET n == Len(arr)
        Before(x, y) == Compare(x, y) < 0 /\ Compare(y, x) > 0
        Equal(x, y) == Compare(x, y) = 0 /\ Compare(y, x) = 0
    IN {arr[i] : i \in
          {i \in 1..n : \A j \in (1..n) \ {i} :
              /\ ~Before(arr[j], arr[i])
              /\ Equal(arr[i], arr[j]) => i < j}}

\* filtered.filter(x => typeof x !== "string"), in order.
ValidOf(responses, f) ==
    LET idx == SelectSeq([i \in 1..Len(f) |-> i], LAMBDA i : f[i] = "ok")
    IN [k \in 1..Len(idx) |-> responses[idx[k]]]
\* Mutant: only the first reason is kept.
InvalidOfFirst(f) ==
    IF SelectSeq(f, LAMBDA m : m # "ok") = << >> THEN << >>
    ELSE << Head(SelectSeq(f, LAMBDA m : m # "ok")) >>

\* filtered.filter(x => typeof x === "string"), in order.
InvalidOf(f) == SelectSeq(f, LAMBDA m : m # "ok")

\* Mutant: the emptiness test never succeeds.
NoResponsesNever(responses) == Len(responses) < 0

\* auctionResponses.length === 0
NoResponses(responses) == Len(responses) = 0

\* Mutant: the catch block rethrows the error as it is.
CatchAuctionRethrow(err, reasons) ==
    QuoteThrow(err, "", reasons)

\* The catch block of the auction: every error is wrapped.
CatchAuction(err, reasons) ==
    QuoteThrow("UnknownAuctionError", err, reasons)

\* Mutant: one rejected response fails the whole auction.
ConcludeAllOrNothing(responses, f) ==
    IF Len(ValidOf(responses, f)) < Len(responses)
    THEN CatchAuction("NoValidBids", InvalidOf(f))
    ELSE \E sorted \in ArraySort(ValidOf(responses, f)) : QuoteReturn(sorted[1])

\* All validations are done: throw NoValidBids or return the head of the
\* sorted valid responses.
Conclude(responses, f) ==
    IF Len(ValidOf(responses, f)) = 0
    THEN CatchAuction("NoValidBids", InvalidOf(f))
    ELSE \E sorted \in ArraySort(ValidOf(responses, f)) : QuoteReturn(sorted[1])

\* The rest of a response's validation once its liquidity read returned.
AfterLiquidity(data, readOk, slippageTolerance) ==
    IF ~readOk THEN LiquidityErrorMsg
    ELSE IF ~LiquidityGate(RouterLiquidity[data.bid.router], data) THEN LiquidityMsg
    ELSE IF ~SlippageGate(data, slippageTolerance) THEN PriceMsg
    ELSE "ok"

\* await auctionBidsPromise, then the synchronous start of every response's
\* validation (signature check, issue of the liquidity read).
QuoteAwait ==
    /\ pc = "await" /\ ppc = "idle"
    /\ promise.state \in {"resolved", "rejected"}
    /\ IF promise.state = "rejected"
       THEN /\ CatchAuction("EvtTimeout", << >>)
            /\ UNCHANGED << io, filtered >>
       ELSE IF NoResponses(promise.value)
       THEN /\ CatchAuction("NoBids", << >>)
            /\ UNCHANGED << io, filtered >>
       ELSE IF params.dryRun
       THEN /\ QuoteReturn(promise.value[1])
            /\ UNCHANGED << io, filtered >>
       ELSE LET f == [i \in 1..Len(promise.value) |->
                        IF SignatureGate(promise.value[i])
                        THEN "pending" ELSE SignatureMsg]
                reads == SelectSeq(f, LAMBDA m : m = "pending")
            IN /\ io' = io \o [i \in 1..Len(reads) |-> "rpcRead"]
               /\ filtered' = f
               /\ IF Len(reads) = 0
                  THEN Conclude(promise.value, f)
                  ELSE /\ pc' = "validating"
                       /\ UNCHANGED << result, resolvedAt >>
    /\ UNCHANGED << params, syncRecords, repliers, connected, subscriptions, local, payload,
                    published, publishedAt, handler, bids, promise, startTime, settledAt,
                    posted, now, prepareVars, sharedVars >>

\* A getRouterLiquidity read returns (or fails); the response's validation
\* finishes, and with the last one Promise.all resolves. The reads do not
\* affect each other and their results are kept by position, so they are
\* taken in the order of the responses.
LiquidityReturn ==
    /\ pc = "validating" /\ ppc = "idle"
    /\ \E i \in 1..Len(filtered), readOk \in BOOLEAN :
         /\ filtered[i] = "pending"
         /\ \A j \in 1..(i - 1) : filtered[j] # "pending"
         /\ LET f == [filtered EXCEPT ![i] =
                        AfterLiquidity(promise.value[i], readOk, SlippageOf(params))]
            IN /\ filtered' = f
               /\ IF \E j \in 1..Len(f) : f[j] = "pending"
                  THEN UNCHANGED << pc, result, resolvedAt >>
                  ELSE Conclude(promise.value, f)
    /\ UNCHANGED << params, syncRecords, repliers, connected, subscriptions, io, local,
                    payload, published, publishedAt, handler, bids, promise, startTime,
                    settledAt, posted, now, prepareVars, sharedVars >>

\* ------------------------------------------------------------------------
\* prepareTransfer
\* ------------------------------------------------------------------------
\* transactionManager.getTransactionManagerAddress(chainId)
getTransactionManagerAddress(chainId) ==
    CASE chainId = 1 -> "0xTM1"
      [] chainId = 2 -> "0xTM2"
      [] OTHER -> UndefinedStr

\* AuctionBidParamsSchema: the bid's addresses are addresses and its amounts
\* are positive.
BidSchemaOk(bid) ==
    /\ bid.user # "" /\ bid.router # ""
    /\ bid.amount > 0 /\ bid.amountReceived > 0

\* Responses a user can hand to prepareTransfer without asking for a quote.
PreparePayload(callTo, sendingChainId) ==
    [MakePayload([BaseParams EXCEPT !.sendingChainId = sendingChainId],
                 [NoLocal EXCEPT !.user = SignerAddress, !.callTo = callTo,
                                 !.callDataHash = keccak256("0x"),
                                 !.encryptedCallData = "0x",
                                 !.expiry = getExpiry(1000)])
     EXCEPT !.dryRun = FALSE]
PrepareChoices ==
    {MakeResponse("inbox0", TRUE, FALSE,
                  MakeBid(PreparePayload(c, 1), "R1", 50, keccak256("0x")), sg) :
        c \in {AddressZero, "0xC0DE", "0xDEAD"}, sg \in {"R1", ""}}
    \cup {MakeResponse("inbox0", TRUE, FALSE,
                       MakeBid(PreparePayload(AddressZero, 3), "R1", 50,
                               keccak256("0x")), "R1")}
    \cup {MakeResponse("inbox0", TRUE, FALSE,
                       MakeBid(PreparePayload(AddressZero, 1), "", 50,
                               keccak256("0x")), "")}

\* Mutant: a missing signature is never noticed.
SignatureMissingNever(bidSignature) == FALSE

\* !bidSignature
SignatureMissing(bidSignature) == bidSignature = EmptySignature

\* Mutant: the code at callTo is never read.
NeedsCodeReadNever(callTo) == FALSE

\* callTo !== constants.AddressZero
NeedsCodeRead(callTo) == callTo # AddressZero

PrepareThrow(err) ==
    /\ presult' = [status |-> "error", error |-> err, request |-> NoRequest]
    /\ ppc' = "done"

\* The checks prepareTransfer makes before its first await: the error of
\* the first check that fails, "" when all pass.
PrepareCheck(records, tp) ==
    IF ~getSubgraphSyncStatus(records, tp.bid.sendingChainId).synced
       \/ ~getSubgraphSyncStatus(records, tp.bid.receivingChainId).synced
    THEN "SubgraphsNotSynced"
    ELSE IF ~BidSchemaOk(tp.bid) THEN "InvalidParamStructure"
    ELSE IF tp.bid.sendingChainId \notin ChainConfig
            \/ tp.bid.receivingChainId \notin ChainConfig
    THEN "ChainNotConfigured"
    ELSE IF SignatureMissing(tp.bidSignature) THEN "InvalidBidSignature"
    ELSE ""

\* The user calls prepareTransfer, with the response a quote returned or
\* with a response of their own; the call runs up to its first await.
PrepareStart ==
    /\ ppc = "idle"
    /\ \/ /\ pc = "done" /\ result.status = "ok"
          /\ transferParams' = result.value
          /\ fromQuote' = TRUE
       \/ /\ pc = "schema" /\ ~connected /\ params = BaseParams
          /\ transferParams' \in PrepareChoices
          /\ fromQuote' = FALSE
    /\ IF PrepareCheck(syncRecords, transferParams') # ""
       THEN PrepareThrow(PrepareCheck(syncRecords, transferParams'))
       ELSE /\ ppc' = IF NeedsCodeRead(transferParams'.bid.callTo)
                      THEN "callTo" ELSE "build"
            /\ UNCHANGED presult
    /\ pio' = IF PrepareCheck(syncRecords, transferParams') = ""
                 /\ NeedsCodeRead(transferParams'.bid.callTo)
              THEN Append(pio, "rpcRead") ELSE pio
    /\ UNCHANGED << quoteVars, sharedVars >>

\* provider.getCode(callTo) on the receiving chain returns (or fails).
PrepareCallTo ==
    /\ ppc = "callTo"
    /\ \E readOk \in BOOLEAN :
         IF ~readOk THEN PrepareThrow("RpcError")
         ELSE IF ~HasCode(transferParams.bid.callTo)
         THEN PrepareThrow("InvalidCallTo")
         ELSE ppc' = "build" /\ UNCHANGED presult
    /\ UNCHANGED << quoteVars, sharedVars, transferParams, fromQuote, pio >>

\* Mutant: the fallback address is the router's.
MakeTxDataFallbackRouter(bid) ==
    [receivingChainTxManagerAddress |->
         getTransactionManagerAddress(bid.receivingChainId),
     user |-> bid.user, router |-> bid.router, initiator |-> bid.initiator,
     sendingAssetId |-> bid.sendingAssetId,
     receivingAssetId |-> bid.receivingAssetId,
     sendingChainFallback |-> bid.router, callTo |-> bid.callTo,
     receivingAddress |-> bid.receivingAddress,
     sendingChainId |-> bid.sendingChainId,
     receivingChainId |-> bid.receivingChainId,
     callDataHash |-> bid.callDataHash, transactionId |-> bid.transactionId]

\* The invariant transaction data of the sender-side prepare.
MakeTxData(bid) ==
    [receivingChainTxManagerAddress |->
         getTransactionManagerAddress(bid.receivingChainId),
     user |-> bid.user, router |-> bid.router, initiator |-> bid.initiator,
     sendingAssetId |-> bid.sendingAssetId,
     receivingAssetId |-> bid.receivingAssetId,
     sendingChainFallback |-> bid.user, callTo |-> bid.callTo,
     receivingAddress |-> bid.receivingAddress,
     sendingChainId |-> bid.sendingChainId,
     receivingChainId |-> bid.receivingChainId,
     callDataHash |-> bid.callDataHash, transactionId |-> bid.transactionId]

\* PrepareParams, addressed to the sending chain.
MakePrepareRequest(tp) ==
    [chainId |-> tp.bid.sendingChainId, txData |-> MakeTxData(tp.bid),
     amount |-> tp.bid.amount, expiry |-> tp.bid.expiry,
     encryptedCallData |-> tp.bid.encryptedCallData,
     bidSignature |-> tp.bidSignature, encodedBid |-> encodeAuctionBid(tp.bid)]

\* txData, params, await this.transactionManager.prepare(...)
PrepareBuild ==
    /\ ppc = "build"
    /\ pio' = Append(pio, "prepareRequest")
    /\ presult' = [status |-> "ok", error |-> "",
                   request |-> MakePrepareRequest(transferParams)]
    /\ ppc' = "done"
    /\ UNCHANGED << quoteVars, sharedVars, transferParams, fromQuote >>

PrepareNext == PrepareStart \/ PrepareCallTo \/ PrepareBuild

QuoteNext ==
    \/ QuoteSchema \/ QuoteSigner \/ QuoteChains \/ QuoteSync \/ QuoteSlippage
    \/ QuoteTime \/ QuoteExpiry \/ QuoteEncrypt \/ QuoteConnect
    \/ QuoteOpenAuction \/ QuotePublish \/ QuoteAwait \/ LiquidityReturn
    \/ ConnectMessaging \/ BusResponse \/ TimerFire \/ Tick

Next == QuoteNext \/ PrepareNext
Spec == Init /\ [][Next]_vars

\* A getTransferQuote call that reaches its auction, in each mode, with
\* one router replying.
InitAuction ==
    /\ params \in AuctionParamsChoices /\ syncRecords = AllSynced
    /\ repliers = {"R1"}
    /\ InitSolo
    /\ fcalls = NoFulfillCalls
    /\ emitted = << >>
    /\ qcalls = NoQuoteCalls
    /\ userConnects = 0
    /\ InitAux

\* The call alone, with the clock running and due timers firing: the event
\* loop runs a timer callback once its delay has passed.
SpecAuction ==
    /\ InitAuction /\ [][QuoteNext]_vars
    /\ WF_vars(Tick) /\ WF_vars(TimerFire)

\* ------------------------------------------------------------------------
\* fulfillTransfer
\* ------------------------------------------------------------------------
\* Transaction ids of the ReceiverTransactionFulfilled events the subgraph
\* can emit: that of the first call's transfer and that of another transfer
\* (the second call's, when there is one).
EventTxIds == {"0xT1", "0xT2"}

\* Mutant: the wait takes any ReceiverTransactionFulfilled event.
FulfillFilterAny(transactionId, data) == TRUE

\* (data) => data.txData.transactionId === params.txData.transactionId
FulfillFilter(transactionId, data) == data.transactionId = transactionId

\* Mutant: every call goes through the relayers.
FulfillRouteAlwaysRelay(useRelayers) == "relay"

\* if (useRelayers) { ... } else { ... }
FulfillRoute(useRelayers) == IF useRelayers THEN "relay" ELSE "direct"

\* Mutant: the wait lasts twice META_TX_TIMEOUT.
FulfillDeadlineDoubled(call) == call.regAt + 2 * META_TX_TIMEOUT

\* The time at which waitFor(..., META_TX_TIMEOUT, ...) gives up.
FulfillDeadline(call) == call.regAt + META_TX_TIMEOUT

\* The meta-tx request sent to the relayers.
MakeMetaTxRequest(call) ==
    [type |-> "Fulfill",
     to |-> getTransactionManagerAddress(call.receivingChainId),
     chainId |-> call.receivingChainId, transactionId |-> call.transactionId]

\* The call throws err to its caller.
FulfillThrow(call, err) ==
    [call EXCEPT !.pc = "done", !.resolvedAt = now,
                 !.result = [NoFulfillResult EXCEPT !.status = "error",
                                                    !.error = err]]

\* Mutant: the request is published and the wait is not registered.
FulfillRegisterNoWait(call) ==
    [call EXCEPT !.pc = "publish", !.regAt = now, !.regIdx = Len(emitted),
                 !.request = MakeMetaTxRequest(call),
                 !.io = call.io \o << "busPublish" >>]

\* generateMessagingInbox, waitFor(ReceiverTransactionFulfilled, ...) and
\* the start of publishMetaTxRequest: one synchronous stretch.
FulfillRegister(call) ==
    [call EXCEPT !.pc = "publish", !.regAt = now, !.regIdx = Len(emitted),
                 !.wait = "pending", !.request = MakeMetaTxRequest(call),
                 !.io = call.io \o << "waitRegistered", "busPublish" >>]

\* fulfillTransfer is called: schema and chain checks, then the branch on
\* useRelayers, up to the first await.
FulfillStart(c) ==
    /\ fcalls[c].pc = "start"
    /\ LET call == fcalls[c]
       IN fcalls' = [fcalls EXCEPT ![c] =
            IF ~call.valid THEN FulfillThrow(call, "InvalidParamStructure")
            ELSE IF call.sendingChainId \notin ChainConfig
                    \/ call.receivingChainId \notin ChainConfig
            THEN FulfillThrow(call, "ChainNotConfigured")
            ELSE IF FulfillRoute(call.useRelayers) = "relay"
            THEN IF ~connected
                 THEN [call EXCEPT !.pc = "connecting",
                                   !.io = Append(call.io, "busConnect")]
                 ELSE FulfillRegister(call)
            ELSE [call EXCEPT !.pc = "direct",
                              !.io = Append(call.io, "chainRequest")]]
    /\ UNCHANGED << soloVars, connected, subscriptions, posted, now, emitted,
                    qcalls, userConnects >>

\* connectMessaging, called by fulfillTransfer: messaging.connect and
\* subscribeToAuctionResponse have returned, the delay starts.
FulfillSubscribed(c) ==
    /\ fcalls[c].pc = "connecting"
    /\ connected' = TRUE
    /\ subscriptions' = subscribeToAuctionResponse(subscriptions)
    /\ fcalls' = [fcalls EXCEPT ![c] =
                    [fcalls[c] EXCEPT !.pc = "delay", !.connectAt = now]]
    /\ UNCHANGED << soloVars, posted, now, emitted, qcalls, userConnects >>

\* The delay of connectMessaging is over; the call registers its wait and
\* publishes.
FulfillDelayDone(c) ==
    /\ fcalls[c].pc = "delay"
    /\ now >= fcalls[c].connectAt + ConnectDelay
    /\ fcalls' = [fcalls EXCEPT ![c] =
                    FulfillRegister([fcalls[c] EXCEPT !.connectAt = 0])]
    /\ UNCHANGED << soloVars, connected, subscriptions, posted, now, emitted,
                    qcalls, userConnects >>

\* await this.messaging.publishMetaTxRequest(request, responseInbox) returns
\* or throws.
FulfillPublished(c) ==
    /\ fcalls[c].pc = "publish"
    /\ \E ok \in BOOLEAN :
         fcalls' = [fcalls EXCEPT ![c] =
            IF ok THEN [fcalls[c] EXCEPT !.pc = "waiting"]
            ELSE FulfillThrow(fcalls[c], "MessagingError")]
    /\ UNCHANGED << soloVars, connected, subscriptions, posted, now, emitted,
                    qcalls, userConnects >>

\* await metaTxProm: the response built from the event, or MetaTxTimeout.
FulfillAwait(c) ==
    /\ fcalls[c].pc = "waiting"
    /\ fcalls[c].wait \in {"resolved", "rejected"}
    /\ LET call == fcalls[c]
       IN fcalls' = [fcalls EXCEPT ![c] =
            IF call.wait = "resolved"
            THEN [call EXCEPT
                    !.pc = "done", !.resolvedAt = now,
                    !.result = [NoFulfillResult EXCEPT
                       !.status = "ok", !.hasMetaTxResponse = TRUE,
                       !.metaTxResponse =
                          [transactionHash |-> call.event.transactionHash,
                           chainId |-> call.event.receivingChainId]]]
            ELSE FulfillThrow(call, "MetaTxTimeout")]
    /\ UNCHANGED << soloVars, connected, subscriptions, posted, now, emitted,
                    qcalls, userConnects >>

\* The timeout of the wait is reached: waitFor rejects.
FulfillTimeout(c) ==
    /\ fcalls[c].wait = "pending"
    /\ now >= FulfillDeadline(fcalls[c])
    /\ fcalls' = [fcalls EXCEPT ![c] =
                    [fcalls[c] EXCEPT !.wait = "rejected", !.settledAt = now,
                                      !.settleIdx = Len(emitted)]]
    /\ UNCHANGED << soloVars, connected, subscriptions, posted, now, emitted,
                    qcalls, userConnects >>

\* await this.transactionManager.fulfill(receivingChainId, ...) returns the
\* request or throws.
FulfillDirect(c) ==
    /\ fcalls[c].pc = "direct"
    /\ \E ok \in BOOLEAN :
         fcalls' = [fcalls EXCEPT ![c] =
            IF ok
            THEN [fcalls[c] EXCEPT
                    !.pc = "done", !.resolvedAt = now,
                    !.result = [NoFulfillResult EXCEPT
                       !.status = "ok", !.hasFulfillRequest = TRUE,
                       !.fulfillRequest =
                          [chainId |-> fcalls[c].receivingChainId,
                           transactionId |-> fcalls[c].transactionId]]]
            ELSE FulfillThrow(fcalls[c], "RpcError")]
    /\ UNCHANGED << soloVars, connected, subscriptions, posted, now, emitted,
                    qcalls, userConnects >>

\* A call is in flight: it awaits a request or an event.
FulfillInFlight(c) ==
    fcalls[c].pc \in {"connecting", "delay", "publish", "waiting", "direct"}

\* The subgraph emits a ReceiverTransactionFulfilled event: every pending
\* wait whose filter takes it resolves with it. The subgraph is followed
\* while a call is in flight.
SubgraphEvent ==
    /\ Len(emitted) < MaxEvents
    /\ \E c \in FulfillIds : FulfillInFlight(c)
    /\ \E id \in EventTxIds :
         LET ev == [transactionId |-> id, transactionHash |-> Len(emitted) + 1,
                    receivingChainId |-> 2]
         IN /\ emitted' = Append(emitted, ev)
            /\ fcalls' = [c \in FulfillIds |->
                  IF fcalls[c].wait = "pending"
                     /\ FulfillFilter(fcalls[c].transactionId, ev)
                  THEN [fcalls[c] EXCEPT !.wait = "resolved", !.event = ev,
                                         !.settledAt = now,
                                         !.settleIdx = Len(emitted) + 1]
                  ELSE fcalls[c]]
    /\ UNCHANGED << soloVars, connected, subscriptions, posted, now, qcalls,
                    userConnects >>

\* The times at which a timer of a fulfillTransfer call is due.
FulfillTimers ==
    {FulfillDeadline(fcalls[c]) : c \in {x \in FulfillIds : fcalls[x].wait = "pending"}}
    \cup {fcalls[c].connectAt + ConnectDelay :
            c \in {x \in FulfillIds : fcalls[x].pc = "delay"}}

\* Time passes up to the next timer; when no timer is set, by the latency of
\* the request a call is waiting for. Due timers and the continuation of a
\* settled wait run before time moves on.
FulfillTime ==
    /\ \E c \in FulfillIds : FulfillInFlight(c)
    /\ \A t \in FulfillTimers : t > now
    /\ \A c \in FulfillIds :
         ~(fcalls[c].pc = "waiting" /\ fcalls[c].wait \in {"resolved", "rejected"})
    /\ now < MaxTicks * META_TX_TIMEOUT
    /\ now' = IF FulfillTimers # {}
              THEN CHOOSE t \in FulfillTimers : \A u \in FulfillTimers : t <= u
              ELSE now + META_TX_TIMEOUT
    /\ UNCHANGED << soloVars, connected, subscriptions, posted, emitted,
                    fcalls, qcalls, userConnects >>

FulfillNext ==
    \/ \E c \in FulfillIds :
         \/ FulfillStart(c) \/ FulfillSubscribed(c) \/ FulfillDelayDone(c)
         \/ FulfillPublished(c) \/ FulfillAwait(c) \/ FulfillTimeout(c)
         \/ FulfillDirect(c)
    \/ SubgraphEvent
    \/ FulfillTime

InitFulfill ==
    /\ params = BaseParams /\ syncRecords = AllSynced /\ repliers = {}
    /\ InitSolo
    /\ fcalls \in FulfillChoices
    /\ emitted = << >>
    /\ qcalls = NoQuoteCalls
    /\ userConnects = 0
    /\ InitAux

SpecFulfill == InitFulfill /\ [][FulfillNext]_vars

\* ------------------------------------------------------------------------
\* prepareTransfer and fulfillTransfer of one SDK instance
\* ------------------------------------------------------------------------
\* One fulfillTransfer call, through the relayers or direct, for the
\* transfer that the prepareTransfer calls are about.
TransferChoices ==
    {f \in FulfillChoices : f[1].valid /\ f[1].sendingChainId \in ChainConfig
                              /\ f[2] = OffFulfillCall}

\* The user calls the two methods in any order: neither reads what the
\* other has done.
TransferNext == PrepareNext \/ FulfillNext

InitTransfer ==
    /\ params = BaseParams /\ syncRecords = AllSynced /\ repliers = {}
    /\ InitSolo
    /\ fcalls \in TransferChoices
    /\ emitted = << >>
    /\ qcalls = NoQuoteCalls
    /\ userConnects = 0
    /\ InitAux

SpecTransfer == InitTransfer /\ [][TransferNext]_vars

\* ------------------------------------------------------------------------
\* The constructor followed by estimateFulfillFee
\* ------------------------------------------------------------------------
\* The amounts the TransactionManager's gas calculation answers.
GasAmounts == 0..MaxGas

\* Mutant: no amount is taken for zero.
IsZeroNever(gasNeeded) == gasNeeded < 0
\* BigNumber.isZero()
IsZero(gasNeeded) == gasNeeded = 0

\* The call asks the TransactionManager for the gas of a fulfill with empty
\* call data on the receiving chain.
FeeStart ==
    /\ Constructed
    /\ feeCall.pc = "idle"
    /\ \E chainId \in DOMAIN ctor.txManagerConfig :
         feeCall' = [feeCall EXCEPT
                       !.pc = "calculate",
                       !.receivingChainId = chainId,
                       !.request = [callData |-> "0x",
                                    callDataHash |-> "keccak256(0x)"]]
    /\ UNCHANGED << progVars, ctor, rprepare, reader, gate >>

\* The calculation answers: a zero amount is thrown as
\* InvalidParamStructure, any other amount is returned.
FeeAnswer ==
    /\ feeCall.pc = "calculate"
    /\ \E gasNeeded \in GasAmounts :
         feeCall' = [feeCall EXCEPT
                       !.pc = "done",
                       !.answered = TRUE,
                       !.gasNeeded = gasNeeded,
                       !.result =
                           IF IsZero(gasNeeded)
                           THEN [status |-> "error", value |-> 0,
                                 error |-> "InvalidParamStructure"]
                           ELSE [status |-> "ok", value |-> gasNeeded,
                                 error |-> "none"]]
    /\ UNCHANGED << progVars, ctor, rprepare, reader, gate >>

\* The calculation rejects: the rejection leaves the method as it is.
FeeRejects ==
    /\ feeCall.pc = "calculate"
    /\ feeCall' = [feeCall EXCEPT
                     !.pc = "done",
                     !.result = [status |-> "error", value |-> 0,
                                 error |-> "rejected"]]
    /\ UNCHANGED << progVars, ctor, rprepare, reader, gate >>

SdkNext ==
    \/ ConstructChain
    \/ ConstructFinish
    \/ FeeStart
    \/ FeeAnswer
    \/ FeeRejects

InitSdk ==
    /\ params = BaseParams /\ syncRecords = AllSynced /\ repliers = {}
    /\ InitSolo
    /\ fcalls = NoFulfillCalls
    /\ emitted = << >>
    /\ qcalls = NoQuoteCalls
    /\ userConnects = 0
    /\ ctor \in {CtorCall(cfg) : cfg \in ChainConfigChoices}
    /\ feeCall = OffFeeCall
    /\ rprepare = OffRouterPrepare
    /\ reader = OffReader
    /\ gate = OffGate

SpecSdk == InitSdk /\ [][SdkNext]_vars

\* ------------------------------------------------------------------------
\* The router's prepare on the receiving chain
\* ------------------------------------------------------------------------
\* The balances and amounts of the runs: zero, constants.One and above.
Balances == 0..MaxBalance

\* The stubs of a run: every helper answers either way, the amount to lock
\* is positive.
StubChoices ==
    [invariantValid : BOOLEAN, inputValid : BOOLEAN,
     signerRecovered : BOOLEAN, receiverAmount : Balances \ {0},
     assetBalance : Balances, routerBalance : Balances,
     validExpiry : BOOLEAN, transactionIdMatches : BOOLEAN,
     validBidExpiry : BOOLEAN]

\* Mutant: the reader's balance alone decides.
LiquidityTooLowReaderOnly(st) == st.assetBalance < st.receiverAmount
\* The router cannot lock the amount: the balance the reader reports and
\* the balance on chain are both below it.
LiquidityTooLow(st) ==
    /\ st.assetBalance < st.receiverAmount
    /\ st.routerBalance < st.receiverAmount

\* The arguments of a run: a transfer to either configured chain, with or
\* without encrypted call data.
RouterInputChoices ==
    {[txData |-> [transactionId |-> "0xT1", receivingChainId |-> c],
      bidSignature |-> "0xBidSig", encodedBid |-> "0xEncodedBid",
      encryptedCallData |-> e] : c \in ChainConfig, e \in {"0x", "0xENC"}}

\* What the chain answers for its block time and what
\* getReceiverExpiryBuffer answers.
BlockTimes == NtpTimes \cup {t + 1 : t \in NtpTimes}
ExpiryBuffers == {hoursToSeconds(1), daysToSeconds(1)}

RouterFails(err) ==
    [rprepare EXCEPT !.pc = "done",
                     !.result = [status |-> "error", error |-> err,
                                 receipt |-> 0]]

\* Mutant: the expiry is the block time, without the buffer.
MakeReceiverPrepareNoBuffer(input, amount, blockTime, buffer) ==
    [chainId |-> input.txData.receivingChainId,
     txData |-> input.txData,
     amount |-> amount,
     expiry |-> blockTime,
     bidSignature |-> input.bidSignature,
     encodedBid |-> input.encodedBid,
     encryptedCallData |-> input.encryptedCallData]
\* The prepare the router submits on the receiving chain.
MakeReceiverPrepare(input, amount, blockTime, buffer) ==
    [chainId |-> input.txData.receivingChainId,
     txData |-> input.txData,
     amount |-> amount,
     expiry |-> blockTime + buffer,
     bidSignature |-> input.bidSignature,
     encodedBid |-> input.encodedBid,
     encryptedCallData |-> input.encryptedCallData]

\* The schemas of the two arguments, then the signer of the bid.
RouterPrepareValidate ==
    /\ rprepare.pc = "validate"
    /\ rprepare' =
         IF ~rprepare.stubs.invariantValid \/ ~rprepare.stubs.inputValid
         THEN RouterFails("Params invalid")
         ELSE IF ~rprepare.stubs.signerRecovered
         THEN RouterFails("Auction signer invalid")
         ELSE [rprepare EXCEPT !.pc = "assetBalance"]
    /\ UNCHANGED << progVars, ctor, feeCall, reader, gate >>

\* contractReader.getAssetBalance: the router's balance as the reader has it.
RouterPrepareAssetBalance ==
    /\ rprepare.pc = "assetBalance"
    /\ rprepare' =
         [rprepare EXCEPT
            !.io = Append(@, "getAssetBalance"),
            !.pc = IF rprepare.stubs.assetBalance
                        < rprepare.stubs.receiverAmount
                   THEN "routerBalance" ELSE "checks"]
    /\ UNCHANGED << progVars, ctor, feeCall, reader, gate >>

\* contractWriter.getRouterBalance: the balance on chain, read when the
\* reader's balance is too low.
RouterPrepareRouterBalance ==
    /\ rprepare.pc = "routerBalance"
    /\ rprepare' =
         IF LiquidityTooLow(rprepare.stubs)
         THEN [RouterFails("Not enough liquidity") EXCEPT
                 !.io = Append(@, "getRouterBalance")]
         ELSE [rprepare EXCEPT !.io = Append(@, "getRouterBalance"),
                               !.pc = "checks"]
    /\ UNCHANGED << progVars, ctor, feeCall, reader, gate >>

\* The expiry, the transaction id of the bid and the expiry of the bid.
RouterPrepareChecks ==
    /\ rprepare.pc = "checks"
    /\ rprepare' =
         IF ~rprepare.stubs.validExpiry THEN RouterFails("Expiry")
         ELSE IF ~rprepare.stubs.transactionIdMatches
         THEN RouterFails("Invalid data on sender chain")
         ELSE IF ~rprepare.stubs.validBidExpiry
         THEN RouterFails("Bid expiry")
         ELSE [rprepare EXCEPT !.pc = "send"]
    /\ UNCHANGED << progVars, ctor, feeCall, reader, gate >>

\* The block time is read and contractWriter.prepare is called once: its
\* receipt is the result.
RouterPrepareSend ==
    /\ rprepare.pc = "send"
    /\ \E blockTime \in BlockTimes, buffer \in ExpiryBuffers :
         rprepare' =
           [rprepare EXCEPT
              !.pc = "done",
              !.io = Append(@, "prepare"),
              !.blockTime = blockTime,
              !.expiryBuffer = buffer,
              !.submitted =
                  Append(@, MakeReceiverPrepare(rprepare.input,
                                rprepare.stubs.receiverAmount,
                                blockTime, buffer)),
              !.result = [status |-> "ok", error |-> "none",
                          receipt |-> Len(rprepare.submitted) + 1]]
    /\ UNCHANGED << progVars, ctor, feeCall, reader, gate >>

RouterPrepareNext ==
    \/ RouterPrepareValidate
    \/ RouterPrepareAssetBalance
    \/ RouterPrepareRouterBalance
    \/ RouterPrepareChecks
    \/ RouterPrepareSend

InitRouterPrepare ==
    /\ params = BaseParams /\ syncRecords = AllSynced /\ repliers = {}
    /\ InitSolo
    /\ fcalls = NoFulfillCalls
    /\ emitted = << >>
    /\ qcalls = NoQuoteCalls
    /\ userConnects = 0
    /\ ctor = OffCtor
    /\ feeCall = OffFeeCall
    /\ rprepare \in {[OffRouterPrepare EXCEPT !.pc = "validate",
                                              !.stubs = st,
                                              !.input = in] :
                       st \in StubChoices, in \in RouterInputChoices}
    /\ reader = OffReader
    /\ gate = OffGate

SpecRouterPrepare == InitRouterPrepare /\ [][RouterPrepareNext]_vars

\* ------------------------------------------------------------------------
\* The transaction service's ChainReader
\* ------------------------------------------------------------------------
\* The chain the reader is configured for, and one it is not.
TestSenderChainId == 1337
ReaderChains == {TestSenderChainId}
ReaderChainChoices == ReaderChains \cup {9999}

ReadMethods == {"readTx", "getBalance", "getDecimalsForAsset", "getBlockTime"}
\* The provider's method behind each read.
ProviderMethod(method) ==
    IF method = "readTx" THEN "readTransaction" ELSE method
\* The argument of a read: the transaction, the address or the asset;
\* getBlockTime takes none.
ReadArgs(method) ==
    IF method = "getBlockTime" THEN {"none"} ELSE {"0xaaa", "0xbbb"}

\* The provider's results: ok(value), zero included, or err(RpcError).
ProviderAnswers ==
    {[isOk |-> TRUE, value |-> v, error |-> "none"] : v \in {0, 42}}
        \cup {[isOk |-> FALSE, value |-> 0, error |-> "fail"]}

\* Mutant: the value of the result is returned without a look at isErr.
ReadOutcomeUnchecked(answer) ==
    [status |-> "ok", value |-> answer.value, error |-> "none"]
\* An error result is thrown, an ok result gives its value.
ReadOutcome(answer) ==
    IF answer.isOk
    THEN [status |-> "ok", value |-> answer.value, error |-> "none"]
    ELSE [status |-> "error", value |-> 0, error |-> answer.error]

ReaderFinish(read) ==
    [reader EXCEPT !.pc = "idle", !.read = NoRead,
                   !.reads = Append(@, read)]

\* A read is called.
ReaderCall ==
    /\ reader.pc = "idle"
    /\ Len(reader.reads) < MaxReads
    /\ \E method \in ReadMethods, chainId \in ReaderChainChoices :
         \E arg \in ReadArgs(method) :
           reader' = [reader EXCEPT
                        !.pc = "getProvider",
                        !.read = [NoRead EXCEPT !.method = method,
                                                !.chainId = chainId,
                                                !.arg = arg]]
    /\ UNCHANGED << progVars, ctor, feeCall, rprepare, gate >>

\* getProvider(chainId): a chain without provider is a
\* TransactionServiceFailure.
ReaderGetProvider ==
    /\ reader.pc = "getProvider"
    /\ reader' =
         IF reader.read.chainId \in ReaderChains
         THEN [reader EXCEPT !.pc = "provider"]
         ELSE ReaderFinish([reader.read EXCEPT
                  !.result = [status |-> "error", value |-> 0,
                              error |-> "TransactionServiceFailure"]])
    /\ UNCHANGED << progVars, ctor, feeCall, rprepare, gate >>

\* The provider's method is called with the argument and its result is
\* given back or thrown.
ReaderProvider ==
    /\ reader.pc = "provider"
    /\ \E answer \in ProviderAnswers :
         reader' = ReaderFinish([reader.read EXCEPT
                      !.answer = answer,
                      !.providerCalls =
                          Append(@, << ProviderMethod(reader.read.method),
                                       reader.read.arg >>),
                      !.result = ReadOutcome(answer)])
    /\ UNCHANGED << progVars, ctor, feeCall, rprepare, gate >>

ReaderNext ==
    \/ ReaderCall
    \/ ReaderGetProvider
    \/ ReaderProvider

InitReader ==
    /\ params = BaseParams /\ syncRecords = AllSynced /\ repliers = {}
    /\ InitSolo
    /\ fcalls = NoFulfillCalls
    /\ emitted = << >>
    /\ qcalls = NoQuoteCalls
    /\ userConnects = 0
    /\ InitAux

SpecReader == InitReader /\ [][ReaderNext]_vars

\* ------------------------------------------------------------------------
\* The slippage check of getTransferQuote, on its own
\* ------------------------------------------------------------------------
\* Amounts received: the small ones, where the integer part matters, and
\* those of the auctions.
GateAmounts == 0..MaxGateAmount \cup AmountsReceived
\* Tolerances the parameter check lets through: the ends of the range, the
\* default and one inside.
GateTolerances ==
    {MIN_SLIPPAGE_TOLERANCE, DEFAULT_SLIPPAGE_TOLERANCE,
     MAX_SLIPPAGE_TOLERANCE \div 2, MAX_SLIPPAGE_TOLERANCE}
\* A collected response with a gas fee of at most the amount received, for
\* a call that asked to send amount.
GateChoices ==
    {[OffGate EXCEPT !.pc = "check", !.amount = m, !.slippageTolerance = t,
                     !.data = [bid |-> [amountReceived |-> ag[1]],
                               gasFeeInReceivingToken |-> ag[2]]] :
        m \in {1, BaseParams.amount}, t \in GateTolerances,
        ag \in {x \in GateAmounts \X GateAmounts : x[2] <= x[1]}}

\* The lower bound of the response is computed and compared.
SlippageCheck ==
    /\ gate.pc = "check"
    /\ gate' = [gate EXCEPT
                  !.pc = "done",
                  !.lowerBound = LowerBound(gate.data, gate.slippageTolerance),
                  !.passes = SlippageGate(gate.data, gate.slippageTolerance)]
    /\ UNCHANGED << progVars, ctor, feeCall, rprepare, reader >>

InitSlippage ==
    /\ params = BaseParams /\ syncRecords = AllSynced /\ repliers = {}
    /\ InitSolo
    /\ fcalls = NoFulfillCalls
    /\ emitted = << >>
    /\ qcalls = NoQuoteCalls
    /\ userConnects = 0
    /\ ctor = OffCtor
    /\ feeCall = OffFeeCall
    /\ rprepare = OffRouterPrepare
    /\ reader = OffReader
    /\ gate \in GateChoices

SpecSlippage == InitSlippage /\ [][SlippageCheck]_vars

\* ------------------------------------------------------------------------
\* Concurrent getTransferQuote calls and connectMessaging
\* ------------------------------------------------------------------------
\* generateMessagingInbox(): a fresh inbox for every call.
SharedInbox(c) == IF c = 1 THEN "inbox1" ELSE "inbox3"

\* The locals of a call whose parameters passed the checks (callTo and
\* callData omitted, expiry from the network time).
SharedLocal(c) ==
    [user |-> SignerAddress, blockTimestamp |-> 1000, expiry |-> getExpiry(1000),
     callTo |-> AddressZero, callData |-> "0x", callDataHash |-> keccak256("0x"),
     encryptedCallData |-> "0x", inbox |-> SharedInbox(c)]

SharedPayload(c) == MakePayload(qcalls[c].params, SharedLocal(c))

\* The answers to the request of call c: a signed bid of each router.
SharedRepliesTo(c) ==
    {m \in RepliesTo(SharedPayload(c), SharedInbox(c)) :
        /\ m.hasData /\ ~m.hasErr /\ m.bidSignature # EmptySignature
        /\ m.bid.callDataHash = SharedPayload(c).callDataHash
        /\ m.bid.amountReceived = (IF m.bid.router = "R1" THEN 50 ELSE 40)}

SharedThrow(call, err, cause, reasons) ==
    [call EXCEPT !.pc = "done",
                 !.result = [status |-> "error", value |-> NoResponse,
                             error |-> err, cause |-> cause,
                             reasons |-> reasons]]

SharedReturn(call, response) ==
    [call EXCEPT !.pc = "done",
                 !.result = [status |-> "ok", value |-> response, error |-> "",
                             cause |-> "", reasons |-> << >>]]

SharedOpenMode(p) == ~p.dryRun /\ p.preferredRouters = {}

\* if (!this.messaging.isConnected()) await this.connectMessaging()
SharedStart(c) ==
    /\ qcalls[c].pc = "start"
    /\ qcalls' = [qcalls EXCEPT ![c].pc =
                     IF connected THEN "auction" ELSE "connecting"]
    /\ UNCHANGED << soloVars, connected, subscriptions, posted, now, fcalls,
                    emitted, userConnects >>

\* connectMessaging called by the call: connect and subscribe return;
\* delay(1000) passes before the call goes on.
SharedSubscribed(c) ==
    /\ qcalls[c].pc = "connecting"
    /\ connected' = TRUE
    /\ subscriptions' = subscribeToAuctionResponse(subscriptions)
    /\ qcalls' = [qcalls EXCEPT ![c].pc = "auction"]
    /\ UNCHANGED << soloVars, posted, now, fcalls, emitted, userConnects >>

\* connectMessaging called by the user.
UserConnectMessaging ==
    /\ userConnects < MaxUserConnects
    /\ userConnects' = userConnects + 1
    /\ connected' = TRUE
    /\ subscriptions' = subscribeToAuctionResponse(subscriptions)
    /\ UNCHANGED << soloVars, posted, now, fcalls, emitted, qcalls >>

\* generateMessagingInbox, creation of auctionBidsPromise, payload.
SharedOpenAuction(c) ==
    /\ qcalls[c].pc = "auction"
    /\ qcalls' = [qcalls EXCEPT ![c].pc = "publish",
                                ![c].inbox = SharedInbox(c),
                                ![c].attached = TRUE,
                                ![c].promise = [state |-> "pending",
                                               value |-> << >>]]
    /\ UNCHANGED << soloVars, connected, subscriptions, posted, now, fcalls,
                    emitted, userConnects >>

\* await this.messaging.publishAuctionRequest(payload, inbox)
SharedPublish(c) ==
    /\ qcalls[c].pc = "publish"
    /\ \E ok \in BOOLEAN :
         qcalls' = [qcalls EXCEPT ![c] =
                      IF ok THEN [@ EXCEPT !.pc = "await", !.published = TRUE]
                      ELSE SharedThrow(@, "MessagingError", "", << >>)]
    /\ UNCHANGED << soloVars, connected, subscriptions, posted, now, fcalls,
                    emitted, userConnects >>

\* What the handler of a call does with a message posted `copies` times on
\* auctionResponseEvt.
SharedReceive(call, msg, copies) ==
    IF call.attached /\ Accepts(call.params, call.inbox, msg)
       /\ SharedOpenMode(call.params)
    THEN [call EXCEPT !.bids = @ \o [i \in 1..copies |-> msg]]
    ELSE call

\* Bookkeeping: the messages that passed the pipes of a call while its
\* auctionBidsPromise was pending, and whether one of them came after
\* another auction had closed.
SharedNote(call, msg, otherClosed) ==
    IF call.promise.state = "pending" /\ Accepts(call.params, call.inbox, msg)
    THEN [call EXCEPT !.seen = @ + 1, !.late = @ \/ otherClosed]
    ELSE call

\* Mutant: closing an auction detaches every handler of auctionResponseEvt.
SharedCloseAll(calls, c, settled) ==
    [d \in CallIds |->
        IF d = c
        THEN [calls[d] EXCEPT !.attached = FALSE, !.promise = settled]
        ELSE [calls[d] EXCEPT !.attached = FALSE]]

\* The auction of call c closes: its own handler is detached (detach(auctionCtx),
\* or the one-shot handler of waitFor) and its promise is settled.
SharedClose(calls, c, settled) ==
    [calls EXCEPT ![c].attached = FALSE, ![c].promise = settled]

\* The waitFor handlers that a posted message resolves, one after the other.
RECURSIVE SharedCloseEach(_, _, _)
SharedCloseEach(calls, S, msg) ==
    IF S = {} THEN calls
    ELSE LET c == CHOOSE x \in S : TRUE
         IN SharedCloseEach(
                SharedClose(calls, c, [state |-> "resolved", value |-> << msg >>]),
                S \ {c}, msg)

\* The bus delivers a message on the auction-response topic: every
\* subscription posts it on auctionResponseEvt, whose attached handlers run.
SharedBusResponse ==
    /\ subscriptions > 0
    /\ posted < MaxSharedResponses
    /\ \E c \in CallIds : qcalls[c].pc \notin {"off", "done"}
    /\ posted' = posted + 1
    /\ \E msg \in ForeignReplies \cup
                  UNION {IF qcalls[c].published THEN SharedRepliesTo(c) ELSE {} :
                           c \in CallIds} :
         LET received == [c \in CallIds |->
                            SharedReceive(
                                SharedNote(qcalls[c], msg,
                                    \E d \in CallIds \ {c} :
                                        qcalls[d].promise.state
                                            \in {"resolved", "rejected"}),
                                msg, subscriptions)]
             resolved == {c \in CallIds :
                            /\ qcalls[c].attached
                            /\ Accepts(qcalls[c].params, qcalls[c].inbox, msg)
                            /\ ~SharedOpenMode(qcalls[c].params)}
         IN qcalls' = SharedCloseEach(received, resolved, msg)
    /\ UNCHANGED << soloVars, connected, subscriptions, now, fcalls, emitted,
                    userConnects >>

\* The timer of a call's auctionBidsPromise fires.
SharedTimerFire(c) ==
    /\ qcalls[c].promise.state = "pending"
    /\ qcalls' = SharedClose(qcalls, c,
                              IF SharedOpenMode(qcalls[c].params)
                              THEN [state |-> "resolved", value |-> qcalls[c].bids]
                              ELSE [state |-> "rejected", value |-> << >>])
    /\ UNCHANGED << soloVars, connected, subscriptions, posted, now, fcalls,
                    emitted, userConnects >>

\* await auctionBidsPromise and the validation of the responses; a router's
\* liquidity read returns or fails.
SharedAwait(c) ==
    /\ qcalls[c].pc = "await"
    /\ qcalls[c].promise.state \in {"resolved", "rejected"}
    /\ LET call == qcalls[c]
           v == call.promise.value
       IN \E readOk \in [Routers -> BOOLEAN] :
            LET f == [i \in 1..Len(v) |->
                        IF ~SignatureGate(v[i]) THEN SignatureMsg
                        ELSE AfterLiquidity(v[i], readOk[v[i].bid.router],
                                            SlippageOf(call.params))]
            IN IF call.promise.state = "rejected"
               THEN qcalls' = [qcalls EXCEPT ![c] =
                        SharedThrow(@, "UnknownAuctionError", "EvtTimeout", << >>)]
               ELSE IF NoResponses(v)
               THEN qcalls' = [qcalls EXCEPT ![c] =
                        SharedThrow(@, "UnknownAuctionError", "NoBids", << >>)]
               ELSE IF call.params.dryRun
               THEN qcalls' = [qcalls EXCEPT ![c] = SharedReturn(@, v[1])]
               ELSE IF Len(ValidOf(v, f)) = 0
               THEN qcalls' = [qcalls EXCEPT ![c] =
                        SharedThrow(@, "UnknownAuctionError", "NoValidBids",
                                    InvalidOf(f))]
               ELSE \E head \in SortHeads(ValidOf(v, f)) :
                      qcalls' = [qcalls EXCEPT ![c] = SharedReturn(@, head)]
    /\ UNCHANGED << soloVars, connected, subscriptions, posted, now, fcalls,
                    emitted, userConnects >>

SharedNext ==
    \/ \E c \in CallIds :
          \/ SharedStart(c) \/ SharedSubscribed(c) \/ SharedOpenAuction(c)
          \/ SharedPublish(c) \/ SharedTimerFire(c) \/ SharedAwait(c)
    \/ UserConnectMessaging
    \/ SharedBusResponse

InitShared ==
    /\ params = BaseParams /\ syncRecords = AllSynced /\ repliers = {}
    /\ InitSolo
    /\ fcalls = NoFulfillCalls
    /\ emitted = << >>
    /\ qcalls \in QuoteCallChoices
    /\ userConnects = 0
    /\ InitAux

SpecShared == InitShared /\ [][SharedNext]_vars

\* ------------------------------------------------------------------------
\* Properties
\* ------------------------------------------------------------------------
OpenMode == ~params.dryRun /\ params.preferredRouters = {}

\* The call is over and the responses it collected were validated.
Validated ==
    /\ pc = "done" /\ promise.state = "resolved" /\ ~params.dryRun
    /\ Len(filtered) = Len(promise.value) /\ Len(filtered) > 0

\* Indices of the responses that passed every gate.
Survivors == {i \in 1..Len(filtered) : filtered[i] = "ok"}

SetMin(S) == CHOOSE x \in S : \A y \in S : x <= y

\* C1: in an open auction the returned response is a surviving bid whose
\* amountReceived is the maximum over the surviving bids.
C1_ChosenIsMaximum ==
    (Validated /\ OpenMode /\ result.status = "ok") =>
        /\ \E i \in Survivors : promise.value[i] = result.value
        /\ \A i \in Survivors :
             promise.value[i].bid.amountReceived <= result.value.bid.amountReceived

\* C2 (as claimed): every response getTransferQuote returns, in every mode,
\* carries a signature that recovers to the bid's router.
C2_ReturnedSignedByRouter ==
    result.status = "ok" =>
        recoverAuctionBid(result.value.bid, result.value.bidSignature)
            = result.value.bid.router

\* C2 (amended): every response getTransferQuote returns when dryRun is not
\* set (open auction and preferred routers) carries a signature that
\* recovers to the bid's router.
C2_ValidatedReturnSignedByRouter ==
    (result.status = "ok" /\ ~params.dryRun) =>
        recoverAuctionBid(result.value.bid, result.value.bidSignature)
            = result.value.bid.router

C2_Witness ==
    /\ result.status = "ok" /\ ~params.dryRun
    /\ \E i \in 1..Len(filtered) : filtered[i] = SignatureMsg

\* C3: among surviving bids of an open auction with the amountReceived of
\* the returned one, the returned one is the first that arrived.
C3_TieReturnsFirstArrived ==
    (Validated /\ OpenMode /\ result.status = "ok") =>
        LET ties == {i \in Survivors :
                       promise.value[i].bid.amountReceived
                           = result.value.bid.amountReceived}
        IN ties # {} /\ promise.value[SetMin(ties)] = result.value

\* C4: the prepare request built from a response that getTransferQuote
\* returned has txData.callDataHash = keccak256(params.callData ?? "0x")
\* (here for the responses that went through validation).
C4_CallDataHashOfParams ==
    (presult.status = "ok" /\ fromQuote /\ ~params.dryRun) =>
        presult.request.txData.callDataHash =
            keccak256(IF params.callData = UndefinedStr THEN "0x" ELSE params.callData)

\* C5: open auction, slippage tolerance 0.10, requested amount 100, one bid
\* with amountReceived 40 and gas fee 1, valid signature and enough
\* liquidity: the bid is rejected for its price and the auction has no
\* valid bids.
C5_LowBidRejected ==
    (/\ Validated /\ OpenMode
     /\ SlippageOf(params) = 10 /\ params.amount = 100
     /\ Len(promise.value) = 1
     /\ promise.value[1].bid.amountReceived = 40
     /\ promise.value[1].gasFeeInReceivingToken = 1
     /\ SignatureGate(promise.value[1])
     /\ LiquidityGate(RouterLiquidity[promise.value[1].bid.router], promise.value[1])
     /\ filtered[1] # LiquidityErrorMsg) =>
        /\ result.status = "error"
        /\ result.cause = "NoValidBids"
        /\ result.reasons = << PriceMsg >>

\* The deadline the claim C6 states: AUCTION_TIMEOUT, doubled with
\* preferred routers.
ClaimedLimit(p) ==
    IF p.preferredRouters = {} THEN AUCTION_TIMEOUT ELSE AUCTION_TIMEOUT * 2

\* C6 (as claimed): the call resolves no later than the deadline after the
\* auction started (epsilon is below one clock tick), here for the calls
\* whose publish returned at once and that validated the bids collected.
C6_ResolvesByDeadline ==
    (Validated /\ publishedAt = startTime) =>
        resolvedAt - startTime <= ClaimedLimit(params)

\* C6 (amended): the collection of bids ends no later than the deadline
\* after the auction started: auctionBidsPromise never stays pending past
\* it and the open auction's window closes exactly AUCTION_TIMEOUT after its
\* start. The call itself resolves only when the publish and the liquidity
\* reads of the collected bids have returned, however long they take.
C6_CollectionEndsByDeadline ==
    /\ promise.state = "pending" => now - startTime <= ClaimedLimit(params)
    /\ promise.state \in {"resolved", "rejected"} =>
         /\ settledAt - startTime <= ClaimedLimit(params)
         /\ OpenMode => settledAt - startTime = AUCTION_TIMEOUT
    /\ (pc = "done" /\ published) => resolvedAt >= settledAt

C6_Witness ==
    /\ Validated /\ OpenMode
    /\ settledAt - startTime = AUCTION_TIMEOUT
    /\ resolvedAt - startTime > AUCTION_TIMEOUT

\* An open auction whose window closed with no bid collected.
ClosedEmpty ==
    /\ pc = "done" /\ OpenMode /\ published
    /\ promise.state = "resolved" /\ Len(promise.value) = 0

\* C7 (as claimed): the caller then receives NoBids.
C7_CallerReceivesNoBids ==
    ClosedEmpty => result.status = "error" /\ result.error = "NoBids"

\* C7 (amended): the caller then receives UnknownAuctionError whose cause
\* is NoBids.
C7_CallerReceivesWrappedNoBids ==
    ClosedEmpty =>
        /\ result.status = "error"
        /\ result.error = "UnknownAuctionError"
        /\ result.cause = "NoBids"

C7_Witness == ClosedEmpty /\ posted > 0

\* Every collected response was validated and rejected.
AllRejected == Validated /\ Survivors = {}

\* C8 (as claimed): the call then fails with NoValidBids carrying one
\* reason per rejected bid.
C8_FailsWithNoValidBids ==
    AllRejected =>
        /\ result.status = "error"
        /\ result.error = "NoValidBids"
        /\ Len(result.reasons) = Len(promise.value)

\* The reason the gates give for rejecting a response.
ReasonFits(data, reason) ==
    IF ~SignatureGate(data) THEN reason = SignatureMsg
    ELSE IF ~LiquidityGate(RouterLiquidity[data.bid.router], data)
    THEN reason \in {LiquidityMsg, LiquidityErrorMsg}
    ELSE reason \in {PriceMsg, LiquidityErrorMsg}

\* C8 (amended): the call then fails with UnknownAuctionError whose cause is
\* NoValidBids carrying one reason per rejected bid, in the order of
\* arrival, each the message of the gate that rejected the bid.
C8_FailsWithWrappedNoValidBids ==
    AllRejected =>
        /\ result.status = "error"
        /\ result.error = "UnknownAuctionError"
        /\ result.cause = "NoValidBids"
        /\ Len(result.reasons) = Len(promise.value)
        /\ \A i \in 1..Len(promise.value) :
             ReasonFits(promise.value[i], result.reasons[i])

C8_Witness ==
    /\ AllRejected
    /\ Len(result.reasons) = 2
    /\ result.reasons[1] = SignatureMsg
    /\ result.reasons[2] = LiquidityMsg

\* C9: every failure of the call after the auction request was published
\* reaches the caller as UnknownAuctionError, the underlying error (no bids,
\* no valid bids, wait timeout) being its cause.
C9_FailuresAfterPublishWrapped ==
    (pc = "done" /\ published /\ result.status = "error") =>
        /\ result.error = "UnknownAuctionError"
        /\ result.cause =
             IF promise.state = "rejected" THEN "EvtTimeout"
             ELSE IF Len(promise.value) = 0 THEN "NoBids"
             ELSE "NoValidBids"

C9_Witness ==
    /\ pc = "done" /\ published /\ result.status = "error"
    /\ promise.state = "rejected"

QuoteChainsConfigured ==
    params.sendingChainId \in ChainConfig /\ params.receivingChainId \in ChainConfig
\* The subgraph has a record of the chain and the record says synced.
ChainSynced(chainId) ==
    syncRecords[chainId].present /\ syncRecords[chainId].synced
QuoteSubgraphsSynced ==
    ChainSynced(params.sendingChainId) /\ ChainSynced(params.receivingChainId)
PrepareChainsConfigured ==
    /\ transferParams.bid.sendingChainId \in ChainConfig
    /\ transferParams.bid.receivingChainId \in ChainConfig
PrepareSubgraphsSynced ==
    /\ ChainSynced(transferParams.bid.sendingChainId)
    /\ ChainSynced(transferParams.bid.receivingChainId)
\* prepareTransfer built no prepare request.
NoPrepareRequest ==
    /\ presult.status = "error" /\ presult.request = NoRequest
    /\ \A i \in 1..Len(pio) : pio[i] # "prepareRequest"

\* C11: a getTransferQuote call (schema-valid params, configured chains)
\* made while the sync record of its sending or receiving chain says
\* synced = false, or is absent, fails with SubgraphsNotSynced; and whatever
\* the params, no auction request is published while a chain is unsynced.
C11_UnsyncedFailsSubgraphsNotSynced ==
    (pc = "done" /\ ~QuoteSubgraphsSynced) =>
        /\ result.status = "error"
        /\ ~published /\ io = << >>
        /\ (params.valid /\ QuoteChainsConfigured) =>
               result.error = "SubgraphsNotSynced"

C11_Witness ==
    /\ pc = "done" /\ result.error = "SubgraphsNotSynced"
    /\ ~syncRecords[params.receivingChainId].present

\* C12: getTransferQuote and prepareTransfer, when the sending or the
\* receiving chain of the request is not configured, fail with
\* ChainNotConfigured and emit no auction request or prepare request.
C12_UnconfiguredFailsChainNotConfigured ==
    /\ (pc = "done" /\ params.valid /\ ~QuoteChainsConfigured) =>
          result.error = "ChainNotConfigured" /\ ~published
    /\ (ppc = "done" /\ BidSchemaOk(transferParams.bid)
           /\ ~PrepareChainsConfigured) =>
          presult.error = "ChainNotConfigured" /\ NoPrepareRequest

\* C13: prepareTransfer with a response that passes the earlier checks and
\* a non-zero callTo at which the receiving chain reports no code fails with
\* InvalidCallTo and builds no prepare request; the code read is made only
\* when callTo is not the zero address.
C13_NoCodeFailsInvalidCallTo ==
    /\ (/\ ppc = "done" /\ PrepareCheck(syncRecords, transferParams) = ""
         /\ transferParams.bid.callTo # AddressZero
         /\ ~HasCode(transferParams.bid.callTo)
         /\ presult.error # "RpcError") =>
          presult.error = "InvalidCallTo" /\ NoPrepareRequest
    /\ (\E i \in 1..Len(pio) : pio[i] = "rpcRead") =>
          transferParams.bid.callTo # AddressZero

C13_Witness ==
    /\ ppc = "done" /\ presult.error = "InvalidCallTo"
    /\ pio = << "rpcRead" >>

\* C14: prepareTransfer with a response that passes the earlier checks
\* (subgraphs synced, bid schema, chains configured) and whose bidSignature
\* is absent or empty fails with InvalidBidSignature; and whatever the
\* response, no prepare request is built without a signature.
C14_MissingSignatureFails ==
    (ppc = "done" /\ transferParams.bidSignature = EmptySignature) =>
        /\ NoPrepareRequest
        /\ (PrepareSubgraphsSynced /\ BidSchemaOk(transferParams.bid)
              /\ PrepareChainsConfigured) =>
               presult.error = "InvalidBidSignature"

C14_Witness ==
    /\ ppc = "done" /\ presult.error = "InvalidBidSignature"
    /\ transferParams.bid.callTo # AddressZero

\* C15: every prepare request prepareTransfer builds has
\* sendingChainFallback = user, is addressed to the bid's sendingChainId and
\* carries the bid's fields and the response's bidSignature unchanged, with
\* encodedBid = encodeAuctionBid(bid).
C15_PrepareRequestCarriesBid ==
    presult.status = "ok" =>
        LET r == presult.request
            bid == transferParams.bid
        IN /\ r.txData.sendingChainFallback = r.txData.user
           /\ r.chainId = bid.sendingChainId
           /\ r.txData.user = bid.user /\ r.txData.router = bid.router
           /\ r.txData.initiator = bid.initiator
           /\ r.txData.sendingAssetId = bid.sendingAssetId
           /\ r.txData.receivingAssetId = bid.receivingAssetId
           /\ r.txData.sendingChainId = bid.sendingChainId
           /\ r.txData.receivingChainId = bid.receivingChainId
           /\ r.txData.callTo = bid.callTo
           /\ r.txData.receivingAddress = bid.receivingAddress
           /\ r.txData.transactionId = bid.transactionId
           /\ r.amount = bid.amount /\ r.expiry = bid.expiry
           /\ r.encryptedCallData = bid.encryptedCallData
           /\ r.bidSignature = transferParams.bidSignature
           /\ r.encodedBid = encodeAuctionBid(bid)

C15_Witness ==
    /\ presult.status = "ok" /\ fromQuote
    /\ transferParams.bid.callTo = "0xC0DE"
    /\ transferParams.bid.router # transferParams.bid.user

\* ------------------------------------------------------------------------
\* fulfillTransfer
\* ------------------------------------------------------------------------
\* The deadline of the claims: META_TX_TIMEOUT after the wait was registered.
ClaimedFulfillDeadline(call) == call.regAt + META_TX_TIMEOUT

\* Positions in the event log, after the call's registration, of the events
\* for the call's transfer.
Matching(call) ==
    {i \in (call.regIdx + 1)..Len(emitted) :
        emitted[i].transactionId = call.transactionId}

C17_ResolvesWithFirstMatchingEvent ==
    \A c \in FulfillIds :
        /\ fcalls[c].wait = "resolved" =>
              fcalls[c].event.transactionId = fcalls[c].transactionId
        /\ fcalls[c].result.hasMetaTxResponse =>
              /\ Matching(fcalls[c]) # {}
              /\ LET first == SetMin(Matching(fcalls[c]))
                 IN fcalls[c].result.metaTxResponse =
                      [transactionHash |-> emitted[first].transactionHash,
                       chainId |-> emitted[first].receivingChainId]

C17_Witness ==
    /\ fcalls[1].result.hasMetaTxResponse
    /\ fcalls[1].result.metaTxResponse.transactionHash = 2
    /\ fcalls[1].regIdx = 0
    /\ fcalls[2].wait = "pending"

\* C18: a call with useRelayers = false performs no bus activity (no
\* connect, no meta-tx request, no event wait) and returns only a direct
\* fulfillRequest for the receiving chain; the result of any call holds
\* exactly one of fulfillRequest and metaTxResponse.
C18_DirectFulfillUsesNoBus ==
    /\ \A c \in FulfillIds :
         /\ ~fcalls[c].useRelayers =>
               /\ fcalls[c].io \in {<< >>, << "chainRequest" >>}
               /\ fcalls[c].wait = "none"
               /\ fcalls[c].request = NoMetaTxRequest
               /\ fcalls[c].result.status = "ok" =>
                     /\ fcalls[c].result.hasFulfillRequest
                     /\ fcalls[c].result.fulfillRequest =
                           [chainId |-> fcalls[c].receivingChainId,
                            transactionId |-> fcalls[c].transactionId]
         /\ fcalls[c].result.status = "ok" =>
               fcalls[c].result.hasFulfillRequest
                   # fcalls[c].result.hasMetaTxResponse
    /\ (\A c \in FulfillIds : ~fcalls[c].useRelayers) =>
          ~connected /\ subscriptions = 0

C18_Witness ==
    /\ fcalls[2].result.status = "ok" /\ ~fcalls[2].useRelayers
    /\ fcalls[1].result.hasMetaTxResponse

\* ------------------------------------------------------------------------
\* Concurrent calls
\* ------------------------------------------------------------------------
\* C19 (as claimed): whatever the interleaving of connectMessaging and
\* getTransferQuote calls, there is at most one subscription on the
\* auction-response topic, and no call's bid list holds more entries than
\* the bus has delivered messages (no bid is counted twice).
C19_AtMostOneSubscription ==
    /\ subscriptions <= 1
    /\ \A c \in CallIds : Len(qcalls[c].bids) <= posted

\* C20: with several getTransferQuote calls in flight, a response addressed
\* to inbox i enters only the bid list of the call that generated i, and a
\* call returns only a response addressed to its own inbox.
C20_ResponsesStayInOwnInbox ==
    \A c \in CallIds :
        /\ \A i \in 1..Len(qcalls[c].bids) :
              qcalls[c].bids[i].inbox = SharedInbox(c)
        /\ \A i \in 1..Len(qcalls[c].promise.value) :
              qcalls[c].promise.value[i].inbox = SharedInbox(c)
        /\ qcalls[c].result.status = "ok" =>
              qcalls[c].result.value.inbox = SharedInbox(c)

C20_Witness ==
    /\ \A c \in CallIds : qcalls[c].attached /\ Len(qcalls[c].bids) > 0
    /\ posted = 2

\* C21: closing one auction (its timer, or its early resolution in dryRun or
\* preferred-router mode) removes only that auction's handler: every call
\* whose auction is still open keeps its handler, so an open auction holds
\* every response that passed its pipes and a dryRun or preferred-router
\* auction has not missed one.
C21_ClosingLeavesOtherHandlers ==
    \A d \in CallIds :
        qcalls[d].promise.state = "pending" =>
            /\ qcalls[d].attached
            /\ SharedOpenMode(qcalls[d].params) =>
                  Len(qcalls[d].bids) >= qcalls[d].seen
            /\ ~SharedOpenMode(qcalls[d].params) => qcalls[d].seen = 0

C21_Witness ==
    /\ ~qcalls[1].attached /\ qcalls[1].promise.state = "resolved"
    /\ qcalls[2].attached /\ qcalls[2].late /\ Len(qcalls[2].bids) >= 1

\* ------------------------------------------------------------------------
\* Auction modes
\* ------------------------------------------------------------------------
PreferredMode == ~params.dryRun /\ params.preferredRouters # {}

\* C22 (as claimed): in preferred-router mode the call returns a valid bid
\* of a preferred router, and it fails after its request was published only
\* if no valid bid of a preferred router arrived within 2 x AUCTION_TIMEOUT
\* (failures of the liquidity reads set aside).
C22_ReturnsFirstValidPreferred ==
    PreferredMode =>
        /\ result.status = "ok" =>
              /\ result.value.bid.router \in params.preferredRouters
              /\ ValidFor(params, local.inbox, result.value)
        /\ (/\ result.status = "error" /\ published
            /\ \A i \in 1..Len(result.reasons) :
                  result.reasons[i] # LiquidityErrorMsg) => ~local.validSeen

\* C23: a dryRun call returns the first response on its inbox that carries
\* data and no err, provided it arrives within AUCTION_TIMEOUT of the start
\* of the auction; it resolves when that response arrives, not at the end
\* of the window, and it fails when none arrives in the window.
C23_DryRunReturnsFirstResponse ==
    params.dryRun =>
        /\ local.hasFirst =>
              /\ promise = [state |-> "resolved", value |-> << local.first >>]
              /\ settledAt = local.firstAt
              /\ local.firstAt - startTime <= AUCTION_TIMEOUT
        /\ result.status = "ok" =>
              /\ local.hasFirst /\ result.value = local.first
              /\ resolvedAt = local.firstAt
        /\ (pc = "done" /\ published /\ ~local.hasFirst) =>
              /\ result.status = "error"
              /\ settledAt - startTime = AUCTION_TIMEOUT

C23_Witness ==
    /\ params.dryRun /\ result.status = "ok"
    /\ result.value.inbox = local.inbox /\ result.value.bid.router = "R2"
    /\ resolvedAt - startTime < AUCTION_TIMEOUT
    /\ posted = 2

\* ------------------------------------------------------------------------
\* Parameter ranges
\* ------------------------------------------------------------------------
\* The call has compared its explicit expiry with the network time.
ExpiryChecked ==
    /\ params.expiry # Undefined
    /\ local.blockTimestamp # 0
    /\ pc # "expiry"

\* C24: a call with an explicit expiry fails with InvalidExpiry and
\* publishes no auction request when expiry - now is below 176400 s (2 days
\* + 1 hour) or above 345600 s (4 days); an expiry exactly at either bound
\* is accepted.
C24_ExpiryWindow ==
    ExpiryChecked =>
        LET buffer == params.expiry - local.blockTimestamp
        IN /\ (buffer < 176400 \/ buffer > 345600) =>
                 /\ result.error = "InvalidExpiry"
                 /\ ~published
                 /\ \A i \in 1..Len(io) : io[i] # "busPublish"
           /\ (buffer >= 176400 /\ buffer <= 345600) =>
                 /\ result.error # "InvalidExpiry"
                 /\ local.expiry = params.expiry

C24_Witness ==
    /\ ExpiryChecked
    /\ params.expiry - local.blockTimestamp = 86400
    /\ result.error = "InvalidExpiry"

\* The call has passed every check that precedes the slippage check, and
\* the slippage check itself.
SlippageChecked ==
    /\ params.valid /\ QuoteChainsConfigured /\ QuoteSubgraphsSynced
    /\ pc \notin {"schema", "signer", "chains", "sync", "slippage"}

\* C25: a slippageTolerance (in hundredths of a percent point; 0.10 when
\* omitted) is accepted exactly when it lies in [0.01, 15.00]; any other
\* value fails with InvalidSlippage and no auction request is published.
C25_SlippageRange ==
    SlippageChecked =>
        LET tolerance == IF params.slippageTolerance = Undefined
                         THEN 10 ELSE params.slippageTolerance
        IN /\ (tolerance < 1 \/ tolerance > 1500) <=>
                 result.error = "InvalidSlippage"
           /\ result.error = "InvalidSlippage" =>
                 /\ ~published
                 /\ \A i \in 1..Len(io) : io[i] # "busPublish"

C25_Witness ==
    /\ SlippageChecked
    /\ params.slippageTolerance = 1500 + 1
    /\ result.error = "InvalidSlippage"

\* ------------------------------------------------------------------------
\* Encryption of the call data
\* ------------------------------------------------------------------------
\* The call is past the encryption of its call data.
EncryptChecked ==
    pc \notin {"schema", "signer", "chains", "sync", "slippage", "time",
               "expiry", "encrypt"}
    \/ result.error = "EncryptionError"

GivenCallData == IF params.callData = UndefinedStr THEN "0x" ELSE params.callData

WalletAsked == \E i \in 1..Len(io) : io[i] = "walletRequest"

\* C26: when callData is not "0x", a failure of the wallet request for the
\* encryption key or of the encryption fails the call with EncryptionError
\* and no auction request is published; when callData is "0x" or omitted,
\* no wallet request is made and the published encryptedCallData is "0x".
C26_EncryptionErrorOrPlain ==
    EncryptChecked =>
        /\ GivenCallData = "0x" =>
              /\ ~WalletAsked
              /\ result.error # "EncryptionError"
              /\ published => payload.encryptedCallData = "0x"
        /\ GivenCallData # "0x" =>
              /\ WalletAsked
              /\ local.encryptedCallData = "0x" <=> result.error = "EncryptionError"
              /\ published => payload.encryptedCallData # "0x"
        /\ result.error = "EncryptionError" =>
              /\ ~published
              /\ \A i \in 1..Len(io) : io[i] \notin {"busConnect", "busPublish"}

C26_Witness ==
    /\ GivenCallData = "0xaa"
    /\ result.error = "EncryptionError"
    /\ io[Len(io)] = "walletRequest"

\* ------------------------------------------------------------------------
\* Order of prepare and fulfill
\* ------------------------------------------------------------------------
\* prepareTransfer has emitted the sender prepare request of the transfer.
PrepareEmitted(transactionId) ==
    /\ presult.status = "ok"
    /\ presult.request.txData.transactionId = transactionId

\* C27 (as claimed): fulfillTransfer produces no fulfill request and
\* publishes no meta-tx request for a transactionId before prepareTransfer
\* has emitted the sender prepare request for that transactionId.
C27_FulfillOnlyAfterPrepare ==
    \A c \in FulfillIds :
        (\/ fcalls[c].result.hasFulfillRequest
         \/ \E i \in 1..Len(fcalls[c].io) : fcalls[c].io[i] = "busPublish") =>
            PrepareEmitted(fcalls[c].transactionId)


\* The chains of the constructor's config, and what each lacks: an item is
\* absent when the config does not give it and the registry does not hold it.
CtorChains == DOMAIN ctor.chainConfig
TmAbsent(c) ==
    /\ ~ctor.chainConfig[c].tmGiven
    /\ ctor.chainConfig[c].tmRegistry # "address"
OracleAbsent(c) ==
    /\ ~ctor.chainConfig[c].oracleGiven
    /\ ctor.chainConfig[c].oracleRegistry # "address"
SubgraphAbsent(c) ==
    /\ ~ctor.chainConfig[c].subgraphGiven
    /\ ~ctor.chainConfig[c].subgraphRegistry
OracleRequired(c) ==
    OracleAbsent(c) /\ ctor.chainConfig[c].gasFeeChain
\* The error the first lacking chain gives, the items taken in the order
\* transaction manager, price oracle, subgraph.
Lacks(c) == TmAbsent(c) \/ OracleRequired(c) \/ SubgraphAbsent(c)
FirstLack(c) ==
    IF TmAbsent(c) THEN "NoTransactionManager"
    ELSE IF OracleRequired(c) THEN "NoPriceOracle" ELSE "NoSubgraph"

\* C28 as claimed: once the constructor has ended, every chain of the config
\* whose transaction manager address, subgraph URI or price oracle address
\* is neither given nor in the registry has made it fail, and a chain that
\* lacks the price oracle and nothing else, with no chain before it lacking
\* anything, has made it fail with NoPriceOracle for that chain.
C28_EveryAbsentEntryFails ==
    ctor.pc = "done" =>
        \A c \in CtorChains :
            /\ (TmAbsent(c) \/ SubgraphAbsent(c) \/ OracleAbsent(c))
                   => ctor.error.type # "none"
            /\ (/\ OracleAbsent(c) /\ ~TmAbsent(c) /\ ~SubgraphAbsent(c)
                /\ \A d \in CtorChains :
                       d < c => ~(TmAbsent(d) \/ SubgraphAbsent(d)
                                      \/ OracleAbsent(d)))
                   => ctor.error = [type |-> "NoPriceOracle", chainId |-> c]

\* C28 amended: the constructor fails exactly when some chain lacks its
\* transaction manager address, its subgraph URI, or, being one of the
\* chains for the gas fee, its price oracle address; the error is the one of
\* the first such chain in ascending order and of its first lacking item in
\* the order transaction manager, price oracle, subgraph; a chain outside
\* the chains for the gas fee that gives no price oracle gets the zero
\* address and does not fail.
C28_RequiredAbsentEntryFails ==
    ctor.pc = "done" =>
        /\ (ctor.error.type = "none") <=> (\A c \in CtorChains : ~Lacks(c))
        /\ \A c \in CtorChains :
             (Lacks(c) /\ \A d \in CtorChains : d < c => ~Lacks(d))
                 => ctor.error = [type |-> FirstLack(c), chainId |-> c]
        /\ \A c \in DOMAIN ctor.txManagerConfig :
             (~ctor.chainConfig[c].oracleGiven
                  /\ ~ctor.chainConfig[c].gasFeeChain)
                 => ctor.txManagerConfig[c].priceOracleAddress = "AddressZero"

\* The constructor has failed with NoPriceOracle for the second chain, after
\* a first chain outside the chains for the gas fee passed with no price
\* oracle given or registered.
C28_Witness ==
    /\ ctor.pc = "done"
    /\ ctor.error = [type |-> "NoPriceOracle", chainId |-> 2]
    /\ OracleAbsent(1)
    /\ ~ctor.chainConfig[1].gasFeeChain
    /\ ctor.txManagerConfig[1].priceOracleAddress = "AddressZero"

\* C29: when the gas calculation has answered, estimateFulfillFee returns
\* the answered amount if it is not zero and fails with
\* InvalidParamStructure if it is zero; it never returns zero.
C29_FeeIsNonZeroOrError ==
    feeCall.pc = "done" =>
        /\ (feeCall.answered /\ feeCall.gasNeeded # 0)
               => feeCall.result = [status |-> "ok",
                                    value |-> feeCall.gasNeeded,
                                    error |-> "none"]
        /\ (feeCall.answered /\ feeCall.gasNeeded = 0)
               => /\ feeCall.result.status = "error"
                  /\ feeCall.result.error = "InvalidParamStructure"
        /\ feeCall.result.status = "ok" => feeCall.result.value # 0

\* The calculation answered zero and the call failed with
\* InvalidParamStructure.
C29_Witness ==
    /\ feeCall.pc = "done"
    /\ feeCall.answered
    /\ feeCall.gasNeeded = 0
    /\ feeCall.result.error = "InvalidParamStructure"

\* The arguments are valid and the bid's signer is the router: the prepare
\* has come to its liquidity gate.
LiquidityGateReached ==
    /\ rprepare.stubs.invariantValid
    /\ rprepare.stubs.inputValid
    /\ rprepare.stubs.signerRecovered
ReaderTooLow == rprepare.stubs.assetBalance < rprepare.stubs.receiverAmount
OnchainTooLow == rprepare.stubs.routerBalance < rprepare.stubs.receiverAmount
LaterGatesPass ==
    /\ rprepare.stubs.validExpiry
    /\ rprepare.stubs.transactionIdMatches
    /\ rprepare.stubs.validBidExpiry

\* C30: a finished prepare has failed with "Not enough liquidity" only if the
\* reader's balance and the on-chain balance are both below the amount to
\* lock, and it has done so whenever they are and the gate was reached; with
\* a too low reader's balance and a sufficient on-chain balance it has
\* succeeded when the other gates pass.
C30_LiquidityNeedsBothTooLow ==
    rprepare.pc = "done" =>
        /\ rprepare.result.error = "Not enough liquidity"
               => (ReaderTooLow /\ OnchainTooLow)
        /\ (LiquidityGateReached /\ ReaderTooLow /\ OnchainTooLow)
               => rprepare.result.error = "Not enough liquidity"
        /\ (LiquidityGateReached /\ ReaderTooLow /\ ~OnchainTooLow
                /\ LaterGatesPass)
               => rprepare.result.status = "ok"

\* The reader reported constants.One, below the amount, the on-chain balance
\* covered the amount, and the prepare was sent.
C30_Witness ==
    /\ rprepare.pc = "done"
    /\ rprepare.result.status = "ok"
    /\ rprepare.stubs.assetBalance = 1
    /\ ReaderTooLow
    /\ ~OnchainTooLow


AllGatesPass ==
    /\ LiquidityGateReached
    /\ ~(ReaderTooLow /\ OnchainTooLow)
    /\ LaterGatesPass

\* C31: a finished prepare whose gates all passed has submitted exactly one
\* prepare, on the receiving chain of the invariant data, with the expiry
\* the block time plus the receiver expiry buffer, the amount the computed
\* receiver amount, and txData, bidSignature, encodedBid and
\* encryptedCallData as given, and has returned the receipt of that
\* submission; a prepare whose bid signer is not the router, whose bid has
\* another transactionId or whose expiry or bid expiry is invalid has been
\* rejected and has submitted nothing.
C31_HappyPathSubmitsOnePrepare ==
    rprepare.pc = "done" =>
        /\ AllGatesPass =>
             /\ Len(rprepare.submitted) = 1
             /\ rprepare.submitted[1].chainId
                    = rprepare.input.txData.receivingChainId
             /\ rprepare.submitted[1].expiry
                    = rprepare.blockTime + rprepare.expiryBuffer
             /\ rprepare.submitted[1].amount = rprepare.stubs.receiverAmount
             /\ rprepare.submitted[1].txData = rprepare.input.txData
             /\ rprepare.submitted[1].bidSignature
                    = rprepare.input.bidSignature
             /\ rprepare.submitted[1].encodedBid = rprepare.input.encodedBid
             /\ rprepare.submitted[1].encryptedCallData
                    = rprepare.input.encryptedCallData
             /\ rprepare.result = [status |-> "ok", error |-> "none",
                                   receipt |-> 1]
        /\ (\/ ~rprepare.stubs.signerRecovered
            \/ ~rprepare.stubs.transactionIdMatches
            \/ ~rprepare.stubs.validExpiry
            \/ ~rprepare.stubs.validBidExpiry) =>
             /\ rprepare.result.status = "error"
             /\ rprepare.submitted = << >>

\* A prepare with encrypted call data for chain 2 went through every gate
\* and was submitted with an expiry one day after the block time.
C31_Witness ==
    /\ rprepare.pc = "done"
    /\ AllGatesPass
    /\ rprepare.input.encryptedCallData = "0xENC"
    /\ rprepare.input.txData.receivingChainId = 2
    /\ Len(rprepare.submitted) = 1
    /\ rprepare.submitted[1].expiry = rprepare.blockTime + daysToSeconds(1)


\* The reads the ChainReader has finished.
FinishedReads == {reader.reads[i] : i \in 1..Len(reader.reads)}

\* C32: a finished read on a chain other than the configured one was
\* rejected with a TransactionServiceFailure and called no provider; a read
\* whose provider gave an error result was rejected with that error; a read
\* whose provider gave a value called the provider's method once, with the
\* read's argument, and returned that value.
C32_ReadGivesProviderResult ==
    \A r \in FinishedReads :
        /\ r.chainId # 1337 =>
             /\ r.result.status = "error"
             /\ r.result.error = "TransactionServiceFailure"
             /\ r.providerCalls = << >>
        /\ (r.chainId = 1337 /\ ~r.answer.isOk) =>
             /\ r.result.status = "error"
             /\ r.result.error = r.answer.error
        /\ (r.chainId = 1337 /\ r.answer.isOk) =>
             /\ r.result = [status |-> "ok", value |-> r.answer.value,
                            error |-> "none"]
             /\ Len(r.providerCalls) = 1
             /\ r.providerCalls[1][2] = r.arg

\* A read of chain 9999 was rejected, then getBalance on the configured
\* chain was rejected with the provider's "fail".
C32_Witness ==
    /\ Len(reader.reads) = 2
    /\ reader.reads[1].chainId = 9999
    /\ reader.reads[1].result.error = "TransactionServiceFailure"
    /\ reader.reads[2].method = "getBalance"
    /\ reader.reads[2].result.error = "fail"
    /\ Len(reader.reads[2].providerCalls) = 1


\* An open auction whose collected responses have all been validated.
OpenAuctionValidated ==
    /\ pc = "done"
    /\ ~params.dryRun /\ params.preferredRouters = {}
    /\ promise.state = "resolved"
    /\ Len(filtered) = Len(promise.value)
    /\ Len(filtered) > 0
\* The response at position i was signed by its router, which has the
\* liquidity for it, at a price within the slippage of the call.
GatesPassAt(i) ==
    /\ recoverAuctionBid(promise.value[i].bid, promise.value[i].bidSignature)
           = promise.value[i].bid.router
    /\ RouterLiquidity[promise.value[i].bid.router]
           >= promise.value[i].bid.amountReceived
    /\ promise.value[i].bid.amountReceived
           >= ((promise.value[i].bid.amountReceived
                   - promise.value[i].gasFeeInReceivingToken)
               * (10000 - (IF params.slippageTolerance = Undefined
                           THEN 10 ELSE params.slippageTolerance)))
              \div 10000

\* C33: when an open auction has validated its responses and one of them
\* passed, the call has returned a response that passed, whatever happened
\* to the others; a response is rejected with "Error getting router
\* liquidity" only on its own failed read, and a response that passes the
\* gates is rejected for no other reason than its own failed read.
C33_RejectedBidsDoNotAbort ==
    OpenAuctionValidated =>
        /\ (\E i \in 1..Len(filtered) : filtered[i] = "ok") =>
             /\ result.status = "ok"
             /\ \E j \in 1..Len(filtered) :
                  /\ filtered[j] = "ok"
                  /\ GatesPassAt(j)
                  /\ result.value = promise.value[j]
        /\ \A i \in 1..Len(filtered) :
             GatesPassAt(i) =>
                 filtered[i] \in {"ok", "Error getting router liquidity"}

\* An open auction returned a response although the liquidity read of
\* another response failed and a third response was not signed by its
\* router.
C33_Witness ==
    /\ OpenAuctionValidated
    /\ result.status = "ok"
    /\ \E i, j \in 1..Len(filtered) :
         /\ filtered[i] = "Error getting router liquidity"
         /\ filtered[j] = "Invalid router signature on bid"


\* C34: the bid set of an auction, and what its promise resolved with, hold
\* only responses with data and without err, and so does every result the
\* call returns, in every mode.
C34_ErrResponsesNeverCollected ==
    /\ \A i \in 1..Len(bids) : bids[i].hasData /\ ~bids[i].hasErr
    /\ \A i \in 1..Len(promise.value) :
         promise.value[i].hasData /\ ~promise.value[i].hasErr
    /\ result.status = "ok" => (result.value.hasData /\ ~result.value.hasErr)

\* A response with data and err reached the inbox while the handler was
\* attached, and the open auction returned another response.
C34_Witness ==
    /\ local.errSeen
    /\ pc = "done"
    /\ ~params.dryRun /\ params.preferredRouters = {}
    /\ result.status = "ok"
    /\ ~result.value.hasErr


\* The window of the auction has closed: its promise is settled.
WindowClosed == promise.state \in {"resolved", "rejected"}

\* C35: once the window of an auction has closed, no step adds a response
\* to its bid set or to what its promise resolved with; what is validated
\* is what the promise resolved with, and what is returned is one of those
\* responses.
C35_LateResponsesDropped ==
    [][/\ WindowClosed => (bids' = bids /\ promise' = promise)
       /\ Len(filtered') <= Len(promise'.value)
       /\ result'.status = "ok" =>
            \E i \in 1..Len(promise'.value) :
                result'.value = promise'.value[i]]_vars

\* After the timer of an open auction fired, a well-formed response reached
\* its inbox; the call returned one of the responses collected before.
C35_Witness ==
    /\ local.lateSeen
    /\ ~params.dryRun /\ params.preferredRouters = {}
    /\ pc = "done"
    /\ result.status = "ok"
    /\ Len(promise.value) = 1


PublishStep == Len(io') = Len(io) + 1 /\ io'[Len(io')] = "busPublish"

\* C37: in every mode the publish of the auction request is made with the
\* handler of the call's inbox registered and its timer started, and a
\* response enters the bid set or resolves the promise only after the
\* request was published by a later step than the one that registered the
\* handler.
C37_HandlerBeforePublish ==
    [][/\ PublishStep =>
            /\ handler # "none"
            /\ promise.state # "none"
            /\ local.inbox # ""
            /\ startTime <= now
       /\ (handler = "none" /\ handler' # "none") => ~published'
       /\ (bids' # bids \/ (promise.state = "pending"
                              /\ promise'.state = "resolved"
                              /\ promise'.value # << >>))
              => (handler = "attached" /\ published)]_vars

\* A dryRun call published its request with the handler attached and was
\* resolved by a reply to it.
C37_Witness ==
    /\ params.dryRun
    /\ published
    /\ promise.state = "resolved"
    /\ Len(promise.value) = 1
    /\ promise.value[1].bid.transactionId = params.transactionId
    /\ startTime <= publishedAt
    /\ publishedAt <= settledAt


\* The calls that have published a meta-tx request.
Relayed == {c \in FulfillIds : fcalls[c].request # NoMetaTxRequest}
\* Positions in the event log of the events for the call's transfer emitted
\* after its registration, and of those emitted before it.
EventsAfter(call) ==
    {i \in 1..Len(emitted) :
        i > call.regIdx /\ emitted[i].transactionId = call.transactionId}
EventsBefore(call) ==
    {i \in 1..Len(emitted) :
        i <= call.regIdx /\ emitted[i].transactionId = call.transactionId}

\* C38 as claimed: the wait is registered before the request is published;
\* every event for the transfer emitted after the publish, at any time, has
\* resolved the wait; a call whose publish returned, with an event for its
\* transfer emitted before its registration and none after it, ends with
\* MetaTxTimeout.
C38_EveryEventAfterPublishObserved ==
    \A c \in Relayed :
        /\ fcalls[c].wait # "none"
        /\ EventsAfter(fcalls[c]) # {} => fcalls[c].wait = "resolved"
        /\ (/\ EventsBefore(fcalls[c]) # {} /\ EventsAfter(fcalls[c]) = {}
            /\ fcalls[c].pc = "done"
            /\ fcalls[c].result.error # "MessagingError") =>
              fcalls[c].result.error = "MetaTxTimeout"

\* C38 amended: the wait is registered before the request is published, in
\* the same synchronous stretch; while the wait is pending no event for the
\* transfer emitted after the registration is unobserved, and a wait that
\* resolved did so with the first of them; an event emitted before the
\* registration never resolves the wait; a wait is rejected only with no
\* event for the transfer between its registration and its timeout, and a
\* call whose wait was rejected and whose publish returned ends with
\* MetaTxTimeout.
C38_EventsWhilePendingObserved ==
    \A c \in Relayed :
        /\ fcalls[c].wait # "none"
        /\ \E i \in 1..Len(fcalls[c].io) :
             /\ fcalls[c].io[i] = "waitRegistered"
             /\ i < Len(fcalls[c].io)
             /\ fcalls[c].io[i + 1] = "busPublish"
        /\ fcalls[c].wait = "pending" => EventsAfter(fcalls[c]) = {}
        /\ fcalls[c].wait = "resolved" =>
              /\ fcalls[c].settleIdx \in EventsAfter(fcalls[c])
              /\ \A i \in EventsAfter(fcalls[c]) : fcalls[c].settleIdx <= i
              /\ fcalls[c].event = emitted[fcalls[c].settleIdx]
        /\ fcalls[c].wait = "rejected" =>
              /\ \A i \in EventsAfter(fcalls[c]) : i > fcalls[c].settleIdx
              /\ fcalls[c].settledAt = fcalls[c].regAt + 300000
              /\ fcalls[c].pc = "done" =>
                    fcalls[c].result.error \in {"MetaTxTimeout",
                                                "MessagingError"}
        /\ fcalls[c].result.error = "MetaTxTimeout" =>
              fcalls[c].wait = "rejected"

\* An event for the first call's transfer was emitted before the call
\* registered its wait, none between the registration and the timeout, and
\* the call ended with MetaTxTimeout.
C38_Witness ==
    /\ 1 \in Relayed
    /\ EventsBefore(fcalls[1]) # {}
    /\ fcalls[1].wait = "rejected"
    /\ fcalls[1].result.error = "MetaTxTimeout"


\* C39: for every response with a gas fee between zero and the amount
\* received and every tolerance of the allowed range, the lower bound is the
\* integer part of (amountReceived - gas fee) x (1 - tolerance/100), it is
\* at most the amount received, and the check passes, whatever amount the
\* call asked to send.
C39_SlippageGateNeverRejects ==
    gate.pc = "done" =>
        /\ gate.lowerBound * 10000
               <= (gate.data.bid.amountReceived
                       - gate.data.gasFeeInReceivingToken)
                  * (10000 - gate.slippageTolerance)
        /\ (gate.lowerBound + 1) * 10000
               > (gate.data.bid.amountReceived
                      - gate.data.gasFeeInReceivingToken)
                 * (10000 - gate.slippageTolerance)
        /\ gate.lowerBound <= gate.data.bid.amountReceived
        /\ gate.passes

\* A response of 12 with no gas fee, at the smallest tolerance, for a call
\* that asked to send 100: the bound is 11 and the response passes.
C39_Witness ==
    /\ gate.pc = "done"
    /\ gate.passes
    /\ gate.data.bid.amountReceived = 12
    /\ gate.data.gasFeeInReceivingToken = 0
    /\ gate.slippageTolerance = 1
    /\ gate.amount = 100
    /\ gate.lowerBound = 11


\* The fields a bid takes over from the auction request.
RequestFields ==
    {"user", "sendingChainId", "sendingAssetId", "amount", "receivingChainId",
     "receivingAssetId", "receivingAddress", "callTo", "expiry",
     "transactionId"}

\* C40: every AuctionResponse getTransferQuote returns has the bid fields
\* user, sendingChainId, sendingAssetId, amount, receivingChainId,
\* receivingAssetId, receivingAddress, callTo, expiry and transactionId of
\* the auction request the call published.
C40_ReturnedBidMatchesRequest ==
    (pc = "done" /\ result.status = "ok" /\ published) =>
        \A f \in RequestFields : result.value.bid[f] = payload[f]

====
